---- MODULE Spec2Model ----
(***************************************************************************)
(* A model of cppython: a read-eval-print loop for a small Python-like     *)
(* language.  Source text is a sequence of one-character strings; the      *)
(* Lexer turns it into tokens, the Parser into a tree of records, and the  *)
(* AST nodes' eval methods into a Value and a changed Environment.         *)
(* C++ exceptions are modelled as result records whose field st is not     *)
(* "ok"; they are passed upward by every caller until a handler takes them.*)
(***************************************************************************)
EXTENDS Integers, Sequences, FiniteSets, TLC

VARIABLES
    env,        \* Interpreter::run: Environment env (name -> Value)
    buffer,     \* Interpreter::run: std::vector<std::string> buffer
    isInBlock,  \* Interpreter::run: bool isInBlock
    lexer,      \* Interpreter::run: Lexer lexer, its fields pos, line, column
    running,    \* "run" while the loop of Interpreter::run goes on, else how it ended
    call,       \* history: the last call of executeCode (its input and what it did)
    assigned,   \* history: name -> value of the last AssignNode evaluated for it
    inp,        \* the input of a one-shot specification (tokens or a tree)
    res         \* the result of a one-shot specification

vars == <<env, buffer, isInBlock, lexer, running, call, assigned, inp, res>>

(***************************************************************************)
(* Characters (QChar) and strings (QString, std::string)                   *)
(***************************************************************************)
DigitSeq == <<"0", "1", "2", "3", "4", "5", "6", "7", "8", "9">>

Digits == {DigitSeq[k] : k \in 1..10}

Letters ==
    {"a", "b", "c", "d", "e", "f", "g", "h", "i", "j", "k", "l", "m",
     "n", "o", "p", "q", "r", "s", "t", "u", "v", "w", "x", "y", "z",
     "A", "B", "C", "D", "E", "F", "G", "H", "I", "J", "K", "L", "M",
     "N", "O", "P", "Q", "R", "S", "T", "U", "V", "W", "X", "Y", "Z"}

isDigit(ch) == ch \in Digits

isLetter(ch) == ch \in Letters

isSpace(ch) == ch \in {" ", "\t", "\n", "\r"}

DigitVal(ch) == (CHOOSE k \in 1..10 : DigitSeq[k] = ch) - 1

\* code[pos] with the 0-based index of C++
at(code, pos) == code[pos + 1]

\* QString::mid(start, n)
mid(code, start, n) == SubSeq(code, start + 1, start + n)

RECURSIVE count(_, _)
\* QString::count(ch)
count(s, ch) ==
    IF s = <<>> THEN 0
    ELSE (IF Head(s) = ch THEN 1 ELSE 0) + count(Tail(s), ch)

RECURSIVE repeated(_, _)
\* QString::repeated(times): empty when times < 1
repeated(s, times) == IF times < 1 THEN <<>> ELSE s \o repeated(s, times - 1)

(***************************************************************************)
(* 32-bit int                                                              *)
(***************************************************************************)
INT_MAX == 2147483647

INT_MIN == -INT_MAX - 1

inInt(n) == INT_MIN <= n /\ n <= INT_MAX

RECURSIVE digitsValue(_, _)
\* the number a digit run denotes, or -1 when it is above INT_MAX
digitsValue(s, acc) ==
    IF s = <<>> THEN acc
    ELSE IF acc > (INT_MAX - DigitVal(Head(s))) \div 10 THEN -1
    ELSE digitsValue(Tail(s), 10 * acc + DigitVal(Head(s)))

\* QString::toInt(): 0 when the text is no int or does not fit in one
NonNegative(n) == IF n < 0 THEN 0 ELSE n

toInt(s) ==
    IF s = <<>> \/ \E k \in 1..Len(s) : ~isDigit(s[k]) THEN 0
    ELSE NonNegative(digitsValue(s, 0))

(***************************************************************************)
(* Value: std::variant<int, double, bool, QString, ...>.  A double is      *)
(* modelled as the exact fraction n/d in lowest terms, d > 0 (the doubles  *)
(* the bounded inputs produce are small quotients of small integers);      *)
(* d = 0 stands for a double this model does not represent, such as an     *)
(* infinity or an irrational power.                                        *)
(***************************************************************************)
IntV(i) == [t |-> "int", v |-> i]

BoolV(b) == [t |-> "bool", v |-> b]

StrV(s) == [t |-> "str", v |-> s]

Abs(i) == IF i < 0 THEN -i ELSE i

RECURSIVE Gcd(_, _)
Gcd(a, b) == IF b = 0 THEN a ELSE Gcd(b, a % b)

\* the double n/d, in lowest terms
Reduced(n, d, g) == [t |-> "float", n |-> n \div g, d |-> d \div g]

Frac(n, d) ==
    IF d = 0 THEN [t |-> "float", n |-> 0, d |-> 0]
    ELSE IF d < 0 THEN Reduced(-n, -d, Gcd(Abs(n), Abs(d)))
    ELSE Reduced(n, d, Gcd(Abs(n), Abs(d)))

FloatV(i) == Frac(i, 1)

\* Value() = default: the variant holds its first alternative, int, value-initialised
DefaultValue == IntV(0)

(***************************************************************************)
(* Lexer (Lexer.h, Lexer.cpp).  lx is the Lexer object: pos, line, column. *)
(* A read function returns the token and the Lexer after it; st = "err"    *)
(* is the std::runtime_error thrown, with the Lexer as the throw left it.  *)
(***************************************************************************)
Token(type, value, line) == [type |-> type, value |-> value, line |-> line]

\* class Lexer { int pos = 0; int line = 1; int column = 1; }
NewLexer == [pos |-> 0, line |-> 1, column |-> 1]

LexOk(tok, lx) == [st |-> "ok", msg |-> "", tok |-> tok, lx |-> lx]

LexErr(msg, lx) == [st |-> "err", msg |-> msg, tok |-> Token("EOF", <<>>, 0), lx |-> lx]

RECURSIVE skipWhitespace(_, _)
skipWhitespace(code, lx) ==
    IF lx.pos < Len(code) /\ isSpace(at(code, lx.pos)) /\ at(code, lx.pos) # "\n"
    THEN skipWhitespace(code, [lx EXCEPT !.pos = @ + 1, !.column = @ + 1])
    ELSE lx

RECURSIVE skipToLineEnd(_, _)
\* the inner loop of skipComment
skipToLineEnd(code, pos) ==
    IF pos < Len(code) /\ at(code, pos) # "\n" THEN skipToLineEnd(code, pos + 1) ELSE pos

skipComment(code, lx) ==
    IF lx.pos < Len(code) /\ at(code, lx.pos) = "#"
    THEN [pos |-> skipToLineEnd(code, lx.pos) + 1, line |-> lx.line + 1, column |-> 1]
    ELSE lx

RECURSIVE numberEnd(_, _)
\* the loop of readNumber
numberEnd(code, pos) ==
    IF pos < Len(code) /\ (isDigit(at(code, pos)) \/ at(code, pos) = ".")
    THEN numberEnd(code, pos + 1)
    ELSE pos

\* the token of readNumber, its loop having stopped at end
readNumberTo(code, lx, end) ==
    LexOk(Token("NUMBER", mid(code, lx.pos, end - lx.pos), lx.line), [lx EXCEPT !.pos = end])

readNumber(code, lx) == readNumberTo(code, lx, numberEnd(code, lx.pos))

RECURSIVE stringScan(_, _, _)
\* the loop of readString
stringScan(code, quote, lx) ==
    IF lx.pos < Len(code) /\ at(code, lx.pos) # quote
    THEN LET nl == at(code, lx.pos) = "\n"
         IN  stringScan(code, quote,
                 [pos |-> lx.pos + 1,
                  line |-> IF nl THEN lx.line + 1 ELSE lx.line,
                  column |-> (IF nl THEN 1 ELSE lx.column) + 1])
    ELSE lx

\* what readString does after its loop, which left the Lexer as lx1
readStringTo(code, start, lx1) ==
    IF lx1.pos >= Len(code)
    THEN LexErr("Unterminated string literal", lx1)
    ELSE LexOk(Token("STRING", mid(code, start, lx1.pos - start), lx1.line),
               [lx1 EXCEPT !.pos = @ + 1, !.column = @ + 1])

readString(code, lx) ==
    readStringTo(code, lx.pos + 1,
        stringScan(code, at(code, lx.pos), [lx EXCEPT !.pos = @ + 1, !.column = @ + 1]))

RECURSIVE identifierEnd(_, _)
\* the loop of readIdentifierOrBool
identifierEnd(code, pos) ==
    IF pos < Len(code) /\ (isLetter(at(code, pos)) \/ at(code, pos) = "_")
    THEN identifierEnd(code, pos + 1)
    ELSE pos

\* the lexemes readIdentifierOrBool compares with
LexerKeywords == {<<"i", "f">>, <<"e", "l", "s", "e">>, <<"d", "e", "f">>}

BoolLexemes == {<<"T", "r", "u", "e">>, <<"F", "a", "l", "s", "e">>}

identifierType(id) ==
    IF id \in LexerKeywords THEN "KEYWORD"
    ELSE IF id \in BoolLexemes THEN "BOOL"
    ELSE "ID"

\* the token of readIdentifierOrBool for the lexeme id
identifierToken(id, lx) ==
    LexOk(Token(identifierType(id), id, lx.line), [lx EXCEPT !.pos = @ + Len(id)])

readIdentifierOrBool(code, lx) ==
    identifierToken(mid(code, lx.pos, identifierEnd(code, lx.pos) - lx.pos), lx)

\* the two-character operators of readOperator
CombinedOperators ==
    {<<"=", "=">>, <<"+", "=">>, <<"!", "=">>, <<"-", "=">>, <<"/", "/">>, <<"*", "*">>}

readOperator(code, lx) ==
    LET op == at(code, lx.pos)
        pos == lx.pos + 1
    IN  IF pos < Len(code) /\ <<op, at(code, pos)>> \in CombinedOperators
        THEN LexOk(Token("OP", <<op, at(code, pos)>>, lx.line), [lx EXCEPT !.pos = pos + 1])
        ELSE LexOk(Token("OP", <<op>>, lx.line), [lx EXCEPT !.pos = pos])

\* the dispatch of nextToken on the character ch the Lexer stands at
readToken(code, lx, ch) ==
    IF isDigit(ch) THEN readNumber(code, lx)
    ELSE IF ch = "\"" \/ ch = "'" THEN readString(code, lx)
    ELSE IF isLetter(ch) \/ ch = "_" THEN readIdentifierOrBool(code, lx)
    ELSE readOperator(code, lx)

\* nextToken after skipWhitespace and skipComment
nextTokenAt(code, lx) ==
    IF lx.pos >= Len(code) THEN LexOk(Token("EOF", <<>>, lx.line), lx)
    ELSE readToken(code, lx, at(code, lx.pos))

nextToken(code, lx) == nextTokenAt(code, skipComment(code, skipWhitespace(code, lx)))

\* the Lexer as tokenize leaves it when it returns
tokenizeReset(lx) == [pos |-> 0, line |-> 0, column |-> 0]

RECURSIVE tokenizeLoop(_, _, _)
\* one turn of the loop of tokenize, r being what nextToken returned or threw
tokenizeStep(code, tokens, r) ==
    IF r.st = "err" THEN [st |-> "err", msg |-> r.msg, tokens |-> <<>>, lx |-> r.lx]
    ELSE IF r.tok.type = "EOF"
    THEN [st |-> "ok", msg |-> "", tokens |-> tokens, lx |-> tokenizeReset(r.lx)]
    ELSE tokenizeLoop(code, r.lx, IF r.tok.value # <<>> THEN Append(tokens, r.tok) ELSE tokens)

tokenizeLoop(code, lx, tokens) == tokenizeStep(code, tokens, nextToken(code, lx))

\* Lexer::tokenize on the Lexer lx: the tokens returned, or the error thrown,
\* and the Lexer afterwards
tokenize(code, lx) == tokenizeLoop(code, lx, <<>>)

\* a token without its line: its kind and lexeme
KindLexeme(tok) == <<tok.type, tok.value>>

KindsLexemes(tokens) == [k \in 1..Len(tokens) |-> KindLexeme(tokens[k])]

(***************************************************************************)
(* double arithmetic on fractions.  A result whose numerator or            *)
(* denominator leaves MaxMag is not represented (d = 0); an evaluation     *)
(* that meets one ends with st = "unmodelled", which no claim is checked   *)
(* on.                                                                     *)
(***************************************************************************)
MaxMag == 10000

\* the double f if the model represents it
Clamp(f) == IF Abs(f.n) > MaxMag \/ f.d > MaxMag THEN [t |-> "float", n |-> 0, d |-> 0] ELSE f

Dbl(n, d) == Clamp(Frac(n, d))

Represented(f) == f.d # 0

DAdd(a, b) == Dbl(a.n * b.d + b.n * a.d, a.d * b.d)

DSub(a, b) == Dbl(a.n * b.d - b.n * a.d, a.d * b.d)

DMul(a, b) == Dbl(a.n * b.n, a.d * b.d)

DDiv(a, b) == Dbl(a.n * b.d, a.d * b.n)

DLess(a, b) == a.n * b.d < b.n * a.d

DEq(a, b) == a.n * b.d = b.n * a.d

RECURSIVE IPowFrom(_, _, _)
\* acc * base^k, or MaxMag + 1 once the product leaves MaxMag
IPowFrom(base, k, acc) ==
    IF k = 0 THEN acc
    ELSE IF Abs(acc * base) > MaxMag THEN MaxMag + 1
    ELSE IPowFrom(base, k - 1, acc * base)

\* base^k for k >= 0, or MaxMag + 1 once it leaves MaxMag
IPow(base, k) ==
    IF k = 0 THEN 1
    ELSE IF base = 0 \/ base = 1 THEN base
    ELSE IF base = -1 THEN (IF k % 2 = 0 THEN 1 ELSE -1)
    ELSE IPowFrom(base, k, 1)

\* the double n/d of two powers, unless one of them left MaxMag
PowDbl(n, d) == IF Abs(n) > MaxMag \/ Abs(d) > MaxMag THEN Frac(0, 0) ELSE Dbl(n, d)

\* pow(a, b) of <cmath> for an integral b; other exponents are not represented
DPow(a, b) ==
    IF b.d # 1 \/ Abs(b.n) > MaxMag THEN Frac(0, 0)
    ELSE IF b.n >= 0 THEN PowDbl(IPow(a.n, b.n), IPow(a.d, b.n))
    ELSE IF a.n = 0 THEN Frac(0, 0)
    ELSE PowDbl(IPow(a.d, -b.n), IPow(a.n, -b.n))

\* a faulty variant of Trunc: the floor
Floor(f) == f.n \div f.d

\* the integer part of a double, as static_cast<int> takes it (toward zero)
Trunc(f) == IF f.n < 0 THEN -((-f.n) \div f.d) ELSE f.n \div f.d

\* the % of C++ on ints: the remainder has the sign of the dividend
CRem(a, b) == a - b * Trunc(Frac(a, b))

(***************************************************************************)
(* Value::toBool (Value.cpp)                                               *)
(***************************************************************************)
toBool(val) ==
    CASE val.t = "int" -> [st |-> "ok", b |-> val.v # 0, msg |-> ""]
      [] val.t = "float" -> [st |-> "ok", b |-> val.n # 0, msg |-> ""]
      [] val.t = "bool" -> [st |-> "ok", b |-> val.v, msg |-> ""]
      [] val.t = "str" -> [st |-> "ok", b |-> val.v # <<>>, msg |-> ""]
      [] OTHER -> [st |-> "err", b |-> FALSE, msg |-> "Unsupported type"]

(***************************************************************************)
(* Environment (Environment.h; set and get at the end of Lexer.cpp)        *)
(***************************************************************************)
NewEnvironment == <<>>

Environment_has(variables, name) == name \in DOMAIN variables

\* a faulty variant of Environment_set: std::map::insert, which keeps an old binding
Environment_insert(variables, name, value) ==
    [n \in DOMAIN variables \cup {name} |-> IF n \in DOMAIN variables THEN variables[n] ELSE value]

Environment_set(variables, name, value) ==
    [n \in DOMAIN variables \cup {name} |-> IF n = name THEN value ELSE variables[n]]

Environment_get(variables, name) ==
    IF Environment_has(variables, name)
    THEN [st |-> "ok", v |-> variables[name], msg |-> ""]
    ELSE [st |-> "err", v |-> DefaultValue, msg |-> "Undefined variable"]

(***************************************************************************)
(* AST nodes (Parser.h).  A std::shared_ptr<ASTNode> is a record whose     *)
(* field k names the class; nullptr is NullNode.                           *)
(***************************************************************************)
NullNode == [k |-> "null"]

ValueNode(value) == [k |-> "value", value |-> value]

BinOpNode(left, op, right) == [k |-> "binop", left |-> left, op |-> op, right |-> right]

VarNode(name) == [k |-> "var", name |-> name]

AssignNode(varName, valueExpr) == [k |-> "assign", varName |-> varName, valueExpr |-> valueExpr]

IfNode(condition, body, elifs, elseBody) ==
    [k |-> "if", condition |-> condition, body |-> body, elifs |-> elifs, elseBody |-> elseBody]

WhileNode(condition, body, elseBody) ==
    [k |-> "while", condition |-> condition, body |-> body, elseBody |-> elseBody]

BreakNode == [k |-> "break"]

ContinueNode == [k |-> "continue"]

\* used by Parser::parseComparison; the class itself is not among the sources
CompareNode(left, compOps, compRights) ==
    [k |-> "compare", left |-> left, compOps |-> compOps, compRights |-> compRights]

(***************************************************************************)
(* Operators as the lexer spells them                                      *)
(***************************************************************************)
OpAdd == <<"+">>

OpSub == <<"-">>

OpMul == <<"*">>

OpPow == <<"*", "*">>

OpDiv == <<"/">>

OpMod == <<"%">>

OpIntDiv == <<"/", "/">>

OpEq == <<"=", "=">>

OpNe == <<"!", "=">>

OpGt == <<">">>

OpGe == <<">", "=">>

OpLt == <<"<">>

OpLe == <<"<", "=">>

\* the keys of opMap in BinOpNode::parseOperation
KnownOperations ==
    {OpAdd, OpSub, OpMul, OpPow, OpDiv, OpMod, OpIntDiv, OpEq, OpNe, OpGt, OpGe, OpLt, OpLe}

(***************************************************************************)
(* BinOpNode::eval and its helpers.  A helper returns [st, v, msg]:        *)
(* st = "err" is a std::runtime_error, "ub" undefined behaviour,           *)
(* "unmodelled" a double outside the model.                                *)
(***************************************************************************)
Val(v) == [st |-> "ok", v |-> v, msg |-> ""]

Throw(msg) == [st |-> "err", v |-> DefaultValue, msg |-> msg]

Undefined(msg) == [st |-> "ub", v |-> DefaultValue, msg |-> msg]

\* Value(double), for a double the model represents
ValD(f) == IF Represented(f) THEN Val(f) ELSE [st |-> "unmodelled", v |-> DefaultValue, msg |-> ""]

\* static_cast<int>(double) is undefined when the integer part does not fit
ValI(i) == IF inInt(i) THEN Val(IntV(i)) ELSE Undefined("double to int out of range")

isNumeric(val) == val.t \in {"int", "float"}

getNumericValue(val) == IF val.t = "float" THEN val ELSE Dbl(val.v, 1)

checkDivisionByZero(denominator) == denominator.n = 0

\* static_cast<int>(lv) % static_cast<int>(rv): undefined for a zero divisor
\* the % of ints li and ri: undefined for a zero divisor
intModulo(li, ri) ==
    IF ri = 0 THEN Undefined("integer modulo by zero") ELSE ValI(CRem(li, ri))

\* static_cast<int>(lv) % static_cast<int>(rv)
evalModulo(lv, rv) == intModulo(Trunc(lv), Trunc(rv))

\* static_cast<int>(q)
castToInt(q) == IF Represented(q) THEN ValI(Trunc(q)) ELSE ValD(q)

\* a faulty variant of evalIntDivide: the quotient is not cast to int
evalIntDivideUncast(lv, rv) == ValD(DDiv(lv, rv))

\* static_cast<int>(lv / rv)
evalIntDivide(lv, rv) == castToInt(DDiv(lv, rv))

\* the switch of evalTwoNumbers on the operands as doubles
evalNumbers(op, lv, rv) ==
    IF ~Represented(lv) \/ ~Represented(rv) THEN ValD(Frac(0, 0))
    ELSE IF op \notin KnownOperations THEN Throw("Unsupported operation")
    ELSE CASE op = OpAdd -> ValD(DAdd(lv, rv))
           [] op = OpSub -> ValD(DSub(lv, rv))
           [] op = OpMul -> ValD(DMul(lv, rv))
           [] op = OpPow -> ValD(DPow(lv, rv))
           [] op \in {OpDiv, OpMod, OpIntDiv} ->
                 IF checkDivisionByZero(rv) THEN Throw("Division by zero")
                 ELSE IF op = OpDiv THEN ValD(DDiv(lv, rv))
                 ELSE IF op = OpMod THEN evalModulo(lv, rv)
                 ELSE evalIntDivide(lv, rv)
           [] op = OpEq -> Val(BoolV(DEq(lv, rv)))
           [] op = OpNe -> Val(BoolV(~DEq(lv, rv)))
           [] op = OpGt -> Val(BoolV(DLess(rv, lv)))
           [] op = OpGe -> Val(BoolV(~DLess(lv, rv)))
           [] op = OpLt -> Val(BoolV(DLess(lv, rv)))
           [] op = OpLe -> Val(BoolV(~DLess(rv, lv)))

evalTwoNumbers(op, l, r) == evalNumbers(op, getNumericValue(l), getNumericValue(r))

\* the order of the characters the bounded inputs use in strings (code points)
CharOrder == <<"'", "0", "1", "2", "3", "A", "B", "a", "b", "c", "x", "y">>

CharRank(ch) ==
    IF \E k \in 1..Len(CharOrder) : CharOrder[k] = ch
    THEN CHOOSE k \in 1..Len(CharOrder) : CharOrder[k] = ch
    ELSE 0

RECURSIVE compare(_, _)
\* QString::compare: negative, zero or positive
compare(a, b) ==
    IF a = <<>> /\ b = <<>> THEN 0
    ELSE IF a = <<>> THEN -1
    ELSE IF b = <<>> THEN 1
    ELSE IF Head(a) = Head(b) THEN compare(Tail(a), Tail(b))
    ELSE CharRank(Head(a)) - CharRank(Head(b))

\* the switch of evalTwoStrings on the two QStrings
evalStrings(op, lv, rv) ==
    IF op \notin KnownOperations THEN Throw("Unsupported operation")
    ELSE CASE op = OpAdd -> Val(StrV(lv \o rv))
           [] op = OpEq -> Val(BoolV(lv = rv))
           [] op = OpNe -> Val(BoolV(lv # rv))
           [] op = OpLe -> Val(BoolV(compare(lv, rv) <= 0))
           [] op = OpLt -> Val(BoolV(compare(lv, rv) < 0))
           [] op = OpGe -> Val(BoolV(compare(lv, rv) >= 0))
           [] op = OpGt -> Val(BoolV(compare(lv, rv) > 0))
           [] OTHER -> Throw("Unsupported operation")

evalTwoStrings(op, l, r) == evalStrings(op, l.v, r.v)

\* a faulty variant of evalNumAndString: only int * string repeats
evalNumAndStringOneSided(op, l, r) ==
    IF l.t = "int" /\ op = OpMul THEN Val(StrV(repeated(r.v, l.v)))
    ELSE Throw("Unsupported operation")

evalNumAndString(op, l, r) ==
    IF l.t = "int"
    THEN IF op = OpMul THEN Val(StrV(repeated(r.v, l.v))) ELSE Throw("Unsupported operation")
    ELSE IF op = OpMul THEN Val(StrV(repeated(l.v, r.v))) ELSE Throw("Unsupported operation")

\* the type dispatch of BinOpNode::eval, on the two operand values
BinOpNode_apply(op, l, r) ==
    IF isNumeric(l) /\ isNumeric(r) THEN evalTwoNumbers(op, l, r)
    ELSE IF l.t \in {"str", "int"} /\ r.t \in {"str", "int"}
    THEN IF l.t = "str" /\ r.t = "str" THEN evalTwoStrings(op, l, r)
         ELSE evalNumAndString(op, l, r)
    ELSE Throw("Unsupported operation")

(***************************************************************************)
(* eval.  Eval(node, e, fuel, p) is node->eval(env) with the Environment   *)
(* e, for the node at path p of the tree executeCode evaluates.  It        *)
(* returns [st, v, env, msg, log, fuel]:                                   *)
(*   st   "ok" (v is the Value returned), "err" (std::runtime_error with   *)
(*        message msg), "break" / "continue" (BreakException /             *)
(*        ContinueException in flight), "ub" (undefined behaviour was      *)
(*        executed), "diverge" (the loop iterations left ran out) or       *)
(*        "unmodelled";                                                    *)
(*   env  the Environment afterwards: it is passed by reference, so what   *)
(*        was set before an exception stays set;                           *)
(*   log  history: what was evaluated, in order.                           *)
(***************************************************************************)
Res(st, v, e, msg, log, fuel) ==
    [st |-> st, v |-> v, env |-> e, msg |-> msg, log |-> log, fuel |-> fuel]

\* a log entry: the node at path p did e ("cond": a condition is evaluated, "falsy":
\* a loop condition was false, "body", "elif", "else": statement i of that body is
\* evaluated, "break", "continue", "set"); j is the elif's index
Ev(p, e, i, j) == [p |-> p, e |-> e, i |-> i, j |-> j, name |-> <<>>, v |-> DefaultValue]

EvSet(p, name, v) == [p |-> p, e |-> "set", i |-> 0, j |-> 0, name |-> name, v |-> v]

Prepend(log, r) == [r EXCEPT !.log = log \o @]

\* the step from a node's path to a child's: which part of the node, and where in it
PathTag(tag) ==
    CASE tag = "cond" -> 0 [] tag = "body" -> 1 [] tag = "else" -> 2
      [] tag = "elif" -> 3 [] tag = "left" -> 4 [] tag = "right" -> 5 [] tag = "expr" -> 6

Child(p, tag, j, i) == p \o <<PathTag(tag), j, i>>

RECURSIVE Eval(_, _, _, _)
RECURSIVE EvalStmts(_, _, _, _, _, _, _, _)
RECURSIVE IfNode_elifs(_, _, _, _, _)
RECURSIVE WhileNode_loop(_, _, _, _, _)
RECURSIVE CompareNode_chain(_, _, _, _, _, _)

\* last = stmt->eval(env) for statement i, which returned or threw r, and the
\* statements after it
EvalStmts_next(stmts, i, last, p, tag, j, r) ==
    IF r.st # "ok" THEN Prepend(<<Ev(p, tag, i, j)>>, [r EXCEPT !.v = last])
    ELSE Prepend(<<Ev(p, tag, i, j)>> \o r.log,
                 EvalStmts(stmts, i + 1, r.env, r.v, r.fuel, p, tag, j))

\* for (stmt : stmts) last = stmt->eval(env), from statement i on; the body is
\* named by tag and j.  When a statement does not return, v is the last value kept.
EvalStmts(stmts, i, e, last, fuel, p, tag, j) ==
    IF i > Len(stmts) THEN Res("ok", last, e, "", <<>>, fuel)
    ELSE EvalStmts_next(stmts, i, last, p, tag, j, Eval(stmts[i], e, fuel, Child(p, tag, j, i)))

ValueNode_eval(node, e, fuel, p) ==
    IF node.value.t = "float" /\ ~Represented(node.value)
    THEN Res("unmodelled", DefaultValue, e, "", <<>>, fuel)
    ELSE Res("ok", node.value, e, "", <<>>, fuel)

\* return env.get(name), g being what get returned or threw
VarNode_got(g, e, fuel) == Res(g.st, g.v, e, g.msg, <<>>, fuel)

VarNode_eval(node, e, fuel, p) == VarNode_got(Environment_get(e, node.name), e, fuel)

\* env.set(varName, val); return val
AssignNode_set(node, p, val) ==
    IF val.st # "ok" THEN val
    ELSE Res("ok", val.v, Environment_set(val.env, node.varName, val.v), "",
             val.log \o <<EvSet(p, node.varName, val.v)>>, val.fuel)

AssignNode_eval(node, e, fuel, p) ==
    AssignNode_set(node, p, Eval(node.valueExpr, e, fuel, Child(p, "expr", 0, 0)))

\* the Value returned for both operands evaluated, x being the operation's outcome
BinOpNode_result(l, r, x) == Res(x.st, x.v, r.env, x.msg, l.log \o r.log, r.fuel)

\* the operation, after the right operand returned or threw r
BinOpNode_both(node, l, r) ==
    IF r.st # "ok" THEN Prepend(l.log, r)
    ELSE BinOpNode_result(l, r, BinOpNode_apply(node.op, l.v, r.v))

\* const Value r = right->eval(env), after the left operand returned or threw l
BinOpNode_right(node, p, l) ==
    IF l.st # "ok" THEN l
    ELSE BinOpNode_both(node, l, Eval(node.right, l.env, l.fuel, Child(p, "right", 0, 0)))

BinOpNode_eval(node, e, fuel, p) ==
    BinOpNode_right(node, p, Eval(node.left, e, fuel, Child(p, "left", 0, 0)))

\* toBool() of the condition's Value: b is what it returned or threw
Condition_bool(here, c, b) ==
    IF b.st # "ok" THEN Res("err", FALSE, c.env, b.msg, here \o c.log, c.fuel)
    ELSE Res("ok", b.b, c.env, "", here \o c.log, c.fuel)

Condition_value(here, c) ==
    IF c.st # "ok" THEN [Prepend(here, c) EXCEPT !.v = FALSE]
    ELSE Condition_bool(here, c, toBool(c.v))

\* a condition and its toBool(): [st, b, env, msg, log, fuel]
Condition(cond, e, fuel, p, here) == Condition_value(here, Eval(cond, e, fuel, p))

\* the j-th elif, its condition having given c
IfNode_elif(node, j, p, c) ==
    IF c.st # "ok" THEN [c EXCEPT !.v = DefaultValue]
    ELSE IF c.v
    THEN Prepend(c.log, EvalStmts(node.elifs[j][2], 1, c.env, DefaultValue, c.fuel, p, "elif", j))
    ELSE Prepend(c.log, IfNode_elifs(node, j + 1, c.env, c.fuel, p))

\* for (elif : elifs), from the j-th on, and what follows the loop
IfNode_elifs(node, j, e, fuel, p) ==
    IF j > Len(node.elifs)
    THEN IF node.elseBody # <<>>
         THEN EvalStmts(node.elseBody, 1, e, DefaultValue, fuel, p, "else", 0)
         ELSE Res("ok", DefaultValue, e, "", <<>>, fuel)
    ELSE IfNode_elif(node, j, p,
             Condition(node.elifs[j][1], e, fuel, Child(p, "cond", j, 0), <<Ev(p, "cond", 0, j)>>))

\* the elif clauses tried after the body of the if ended as b
IfNode_afterBody(node, p, b) ==
    IF b.st # "ok" THEN b ELSE Prepend(b.log, IfNode_elifs(node, 1, b.env, b.fuel, p))

\* a faulty variant of IfNode_branch: after the body of a true if, the elif clauses
\* and the else body are tried as well
IfNode_branchFallingThrough(node, p, c) ==
    IF c.st # "ok" THEN [c EXCEPT !.v = DefaultValue]
    ELSE IF c.v
    THEN Prepend(c.log, IfNode_afterBody(node, p,
             EvalStmts(node.body, 1, c.env, DefaultValue, c.fuel, p, "body", 0)))
    ELSE Prepend(c.log, IfNode_elifs(node, 1, c.env, c.fuel, p))

\* if (condition->eval(env).toBool()), the condition having given c
IfNode_branch(node, p, c) ==
    IF c.st # "ok" THEN [c EXCEPT !.v = DefaultValue]
    ELSE IF c.v
    THEN Prepend(c.log, EvalStmts(node.body, 1, c.env, DefaultValue, c.fuel, p, "body", 0))
    ELSE Prepend(c.log, IfNode_elifs(node, 1, c.env, c.fuel, p))

IfNode_eval(node, e, fuel, p) ==
    IfNode_branch(node, p,
        Condition(node.condition, e, fuel, Child(p, "cond", 0, 0), <<Ev(p, "cond", 0, 0)>>))

BreakNode_eval(node, e, fuel, p) == Res("break", DefaultValue, e, "", <<Ev(p, "break", 0, 0)>>, fuel)

ContinueNode_eval(node, e, fuel, p) ==
    Res("continue", DefaultValue, e, "", <<Ev(p, "continue", 0, 0)>>, fuel)

\* if (!broken) for (stmt : elseBody) last = stmt->eval(env); return last
WhileNode_else(node, e, last, fuel, p) == EvalStmts(node.elseBody, 1, e, last, fuel, p, "else", 0)

\* a faulty variant of WhileNode_caught: broken is not set, the else body runs
WhileNode_caughtUnbroken(node, p, c, b) ==
    IF b.st \in {"ok", "continue"}
    THEN Prepend(c.log \o b.log, WhileNode_loop(node, b.env, b.v, b.fuel, p))
    ELSE IF b.st = "break"
    THEN Prepend(c.log \o b.log, WhileNode_else(node, b.env, b.v, b.fuel, p))
    ELSE Prepend(c.log, b)

\* a faulty variant of WhileNode_caught: the catch of ContinueException leaves the loop
WhileNode_caughtLeaving(node, p, c, b) ==
    IF b.st = "ok"
    THEN Prepend(c.log \o b.log, WhileNode_loop(node, b.env, b.v, b.fuel, p))
    ELSE IF b.st = "continue"
    THEN Prepend(c.log \o b.log, WhileNode_else(node, b.env, b.v, b.fuel, p))
    ELSE IF b.st = "break"
    THEN Res("ok", b.v, b.env, "", c.log \o b.log, b.fuel)
    ELSE Prepend(c.log, b)

\* a faulty variant of WhileNode_caught: a break ends the loop and goes on to the
\* loop that encloses it
WhileNode_caughtRethrowing(node, p, c, b) ==
    IF b.st \in {"ok", "continue"}
    THEN Prepend(c.log \o b.log, WhileNode_loop(node, b.env, b.v, b.fuel, p))
    ELSE Prepend(c.log, b)

\* the try block of one iteration and its catches: b is how the body ended
WhileNode_caught(node, p, c, b) ==
    IF b.st \in {"ok", "continue"}
    THEN Prepend(c.log \o b.log, WhileNode_loop(node, b.env, b.v, b.fuel, p))
    ELSE IF b.st = "break"
    THEN Res("ok", b.v, b.env, "", c.log \o b.log, b.fuel)
    ELSE Prepend(c.log, b)

\* one test of the loop condition, which gave c, and what follows it
WhileNode_test(node, last, p, c) ==
    IF c.st # "ok" THEN [c EXCEPT !.v = last]
    ELSE IF ~c.v
    THEN Prepend(c.log \o <<Ev(p, "falsy", 0, 0)>>, WhileNode_else(node, c.env, last, c.fuel, p))
    ELSE WhileNode_caught(node, p, c, EvalStmts(node.body, 1, c.env, last, c.fuel, p, "body", 0))

\* while (condition->eval(env).toBool()) { try { body } catch ... }, then the else
\* body; each test of the condition takes one unit of fuel
WhileNode_loop(node, e, last, fuel, p) ==
    IF fuel = 0 THEN Res("diverge", last, e, "", <<>>, 0)
    ELSE WhileNode_test(node, last, p,
             Condition(node.condition, e, fuel - 1, Child(p, "cond", 0, 0), <<Ev(p, "cond", 0, 0)>>))

WhileNode_eval(node, e, fuel, p) == WhileNode_loop(node, e, DefaultValue, fuel, p)

\* the i-th comparison, x being its outcome and r its right operand
CompareNode_compared(node, i, p, r, x) ==
    IF x.st # "ok" THEN Res(x.st, x.v, r.env, x.msg, r.log, r.fuel)
    ELSE IF x.v = BoolV(FALSE) THEN Res("ok", x.v, r.env, "", r.log, r.fuel)
    ELSE Prepend(r.log, CompareNode_chain(node, i + 1, r.v, r.env, r.fuel, p))

CompareNode_right(node, i, prev, p, r) ==
    IF r.st # "ok" THEN r
    ELSE CompareNode_compared(node, i, p, r, BinOpNode_apply(node.compOps[i], prev, r.v))

\* the comparisons from the i-th on, prev being the operand to their left: each is
\* made between neighbours as BinOpNode makes it, and the first false one decides
CompareNode_chain(node, i, prev, e, fuel, p) ==
    IF i > Len(node.compOps) THEN Res("ok", BoolV(TRUE), e, "", <<>>, fuel)
    ELSE CompareNode_right(node, i, prev, p,
             Eval(node.compRights[i], e, fuel, Child(p, "right", 0, i)))

CompareNode_left(node, p, l) ==
    IF l.st # "ok" THEN l
    ELSE Prepend(l.log, CompareNode_chain(node, 1, l.v, l.env, l.fuel, p))

CompareNode_eval(node, e, fuel, p) ==
    CompareNode_left(node, p, Eval(node.left, e, fuel, Child(p, "left", 0, 0)))

Eval(node, e, fuel, p) ==
    CASE node.k = "null" -> Res("ub", DefaultValue, e, "call through a null pointer", <<>>, fuel)
      [] node.k = "value" -> ValueNode_eval(node, e, fuel, p)
      [] node.k = "binop" -> BinOpNode_eval(node, e, fuel, p)
      [] node.k = "var" -> VarNode_eval(node, e, fuel, p)
      [] node.k = "assign" -> AssignNode_eval(node, e, fuel, p)
      [] node.k = "if" -> IfNode_eval(node, e, fuel, p)
      [] node.k = "while" -> WhileNode_eval(node, e, fuel, p)
      [] node.k = "break" -> BreakNode_eval(node, e, fuel, p)
      [] node.k = "continue" -> ContinueNode_eval(node, e, fuel, p)
      [] node.k = "compare" -> CompareNode_eval(node, e, fuel, p)

(***************************************************************************)
(* Parser (Parser.cpp).  The Parser object is its token vector and the     *)
(* cursor current; a parse function returns [st, node, cur, msg]: the node *)
(* built and the cursor after it, or st = "err", the std::runtime_error    *)
(* thrown, or st = "hang", a loop that never ends.                         *)
(***************************************************************************)
KwIf == <<"i", "f">>

KwElif == <<"e", "l", "i", "f">>

KwElse == <<"e", "l", "s", "e">>

KwWhile == <<"w", "h", "i", "l", "e">>

KwBreak == <<"b", "r", "e", "a", "k">>

KwContinue == <<"c", "o", "n", "t", "i", "n", "u", "e">>

Parsed(node, cur) == [st |-> "ok", node |-> node, cur |-> cur, msg |-> ""]

ParseError(msg, cur) == [st |-> "err", node |-> NullNode, cur |-> cur, msg |-> msg]

peek(tokens, current) ==
    IF current < Len(tokens) THEN tokens[current + 1] ELSE Token("EOF", <<>>, 0)

\* the cursor after advance()
advance(tokens, current) == IF current < Len(tokens) THEN current + 1 ELSE current

peekIs(tokens, current, type, value) ==
    peek(tokens, current).type = type /\ peek(tokens, current).value = value

peekIsOp(tokens, current, ops) ==
    peek(tokens, current).type = "OP" /\ peek(tokens, current).value \in ops

\* QString::toDouble() of digits with one '.' in them
\* the double with the digits whole before the '.' and part after it
decimal(whole, part) ==
    Dbl(digitsValue(whole, 0) * IPow(10, Len(part)) + digitsValue(part, 0), IPow(10, Len(part)))

\* where the '.' of s is
dotOf(s) == CHOOSE k \in 1..Len(s) : s[k] = "."

\* QString::toDouble() of digits with one '.' in them
toDoubleAt(s, dot) ==
    IF Len(s) > 5 THEN Frac(0, 0)
    ELSE decimal(SubSeq(s, 1, dot - 1), SubSeq(s, dot + 1, Len(s)))

toDouble(s) == toDoubleAt(s, dotOf(s))

\* a faulty variant of parseNumberLexeme: a lexeme with one '.' is read with toInt
parseNumberLexemeInt(value, dots, cur) ==
    IF dots <= 1 THEN Parsed(ValueNode(IntV(toInt(value))), cur)
    ELSE ParseError("Invalid number format", cur)

\* the switch of parseNumberToken on the number of '.' in the lexeme
parseNumberLexeme(value, dots, cur) ==
    IF dots = 0 THEN Parsed(ValueNode(IntV(toInt(value))), cur)
    ELSE IF dots = 1 THEN Parsed(ValueNode(toDouble(value)), cur)
    ELSE ParseError("Invalid number format", cur)

parseNumberToken(tokens, current) ==
    parseNumberLexeme(peek(tokens, current).value, count(peek(tokens, current).value, "."),
                      advance(tokens, current))

parseStringToken(tokens, current) ==
    Parsed(ValueNode(StrV(peek(tokens, current).value)), advance(tokens, current))

parseBoolToken(tokens, current) ==
    Parsed(ValueNode(BoolV(peek(tokens, current).value = <<"T", "r", "u", "e">>)),
           advance(tokens, current))

parseIdentifierToken(tokens, current) ==
    Parsed(VarNode(peek(tokens, current).value), advance(tokens, current))

parseBreakStatement(tokens, current) == Parsed(BreakNode, advance(tokens, current))

parseContinueStatement(tokens, current) == Parsed(ContinueNode, advance(tokens, current))

RECURSIVE parse(_, _)
RECURSIVE parseAssignment(_, _)
RECURSIVE parseAdditionAndSubtraction(_, _)
RECURSIVE parseComparisonLoop(_, _, _, _, _)
RECURSIVE parseAdditionLoop(_, _, _)
RECURSIVE parseTerm(_, _)
RECURSIVE parseTermLoop(_, _, _)
RECURSIVE parseUnaryMinus(_, _)
RECURSIVE parseElifs(_, _, _, _, _)
RECURSIVE parseBlockLoop(_, _, _)

\* the ')' after the expression expr in parentheses
parseClosingParenthesis(tokens, expr) ==
    IF expr.st # "ok" THEN expr
    ELSE IF peekIs(tokens, expr.cur, "OP", <<")">>)
    THEN Parsed(expr.node, advance(tokens, expr.cur))
    ELSE ParseError("Expected ')'", expr.cur)

parseParenthesizedExpression(tokens, current) ==
    parseClosingParenthesis(tokens, parseAssignment(tokens, advance(tokens, current)))

\* the switch of parsePrimary on the token at the cursor
parsePrimaryToken(tokens, current, token) ==
    CASE token.type = "NUMBER" -> parseNumberToken(tokens, current)
      [] token.type = "STRING" -> parseStringToken(tokens, current)
      [] token.type = "BOOL" -> parseBoolToken(tokens, current)
      [] token.type = "ID" -> parseIdentifierToken(tokens, current)
      [] token.type = "OP" ->
            IF token.value = <<"(">> THEN parseParenthesizedExpression(tokens, current)
            ELSE Parsed(NullNode, current)
      [] token.type = "EOF" -> Parsed(NullNode, current)
      [] OTHER -> ParseError("Unexpected token", current)

parsePrimary(tokens, current) == parsePrimaryToken(tokens, current, peek(tokens, current))

\* left ** right, the exponent having been parsed as right
parsePowerNode(left, right) ==
    IF right.st # "ok" THEN right
    ELSE Parsed(BinOpNode(left.node, OpPow, right.node), right.cur)

\* a faulty variant of parseExponent: the exponent is a primary
parseExponentPrimary(tokens, left) ==
    IF left.st # "ok" THEN left
    ELSE IF peekIs(tokens, left.cur, "OP", OpPow)
    THEN parsePowerNode(left, parsePrimary(tokens, advance(tokens, left.cur)))
    ELSE left

\* the optional "**" and exponent after the primary left
parseExponent(tokens, left) ==
    IF left.st # "ok" THEN left
    ELSE IF peekIs(tokens, left.cur, "OP", OpPow)
    THEN parsePowerNode(left, parseUnaryMinus(tokens, advance(tokens, left.cur)))
    ELSE left

parsePower(tokens, current) == parseExponent(tokens, parsePrimary(tokens, current))

\* 0 - rhs, the operand of the unary minus having been parsed as rhs
parseNegated(rhs) ==
    IF rhs.st # "ok" THEN rhs
    ELSE Parsed(BinOpNode(ValueNode(IntV(0)), OpSub, rhs.node), rhs.cur)

parseUnaryMinus(tokens, current) ==
    IF peekIs(tokens, current, "OP", OpSub)
    THEN parseNegated(parseUnaryMinus(tokens, advance(tokens, current)))
    ELSE parsePower(tokens, current)

\* left = BinOpNode(left, op, right) in the loop of parseTerm
parseTermNode(tokens, left, op, right) ==
    IF right.st # "ok" THEN right
    ELSE parseTermLoop(tokens, right.cur, BinOpNode(left, op, right.node))

\* the while loop of parseTerm, left being the tree built so far
parseTermLoop(tokens, current, left) ==
    IF peekIsOp(tokens, current, {OpMul, OpDiv, OpIntDiv, OpMod})
    THEN parseTermNode(tokens, left, peek(tokens, current).value,
                       parseUnaryMinus(tokens, advance(tokens, current)))
    ELSE Parsed(left, current)

parseTermFrom(tokens, left) ==
    IF left.st # "ok" THEN left ELSE parseTermLoop(tokens, left.cur, left.node)

parseTerm(tokens, current) == parseTermFrom(tokens, parseUnaryMinus(tokens, current))

\* left = BinOpNode(left, op, right) in the loop of parseAdditionAndSubtraction
parseAdditionNode(tokens, left, op, right) ==
    IF right.st # "ok" THEN right
    ELSE parseAdditionLoop(tokens, right.cur, BinOpNode(left, op, right.node))

\* a faulty variant of parseAdditionLoop: the right operand is no whole term
parseAdditionLoopFlat(tokens, current, left) ==
    IF peekIsOp(tokens, current, {OpAdd, OpSub})
    THEN parseAdditionNode(tokens, left, peek(tokens, current).value,
                           parseUnaryMinus(tokens, advance(tokens, current)))
    ELSE Parsed(left, current)

\* the while loop of parseAdditionAndSubtraction
parseAdditionLoop(tokens, current, left) ==
    IF peekIsOp(tokens, current, {OpAdd, OpSub})
    THEN parseAdditionNode(tokens, left, peek(tokens, current).value,
                           parseTerm(tokens, advance(tokens, current)))
    ELSE Parsed(left, current)

parseAdditionFrom(tokens, left) ==
    IF left.st # "ok" THEN left ELSE parseAdditionLoop(tokens, left.cur, left.node)

parseAdditionAndSubtraction(tokens, current) == parseAdditionFrom(tokens, parseTerm(tokens, current))

\* compOps.push_back(op); compRights.push_back(right) in the loop of parseComparison
parseComparisonOperand(tokens, left, compOps, compRights, op, right) ==
    IF right.st # "ok" THEN right
    ELSE parseComparisonLoop(tokens, right.cur, left,
             Append(compOps, op), Append(compRights, right.node))

\* the while loop of parseComparison and the node it ends with
parseComparisonLoop(tokens, current, left, compOps, compRights) ==
    IF peekIsOp(tokens, current, {OpEq, OpNe, OpLt, OpLe, OpGt, OpGe})
    THEN parseComparisonOperand(tokens, left, compOps, compRights, peek(tokens, current).value,
             parseAdditionAndSubtraction(tokens, advance(tokens, current)))
    ELSE IF compOps = <<>> THEN Parsed(left, current)
    ELSE Parsed(CompareNode(left, compOps, compRights), current)

parseComparisonFrom(tokens, left) ==
    IF left.st # "ok" THEN left
    ELSE parseComparisonLoop(tokens, left.cur, left.node, <<>>, <<>>)

parseComparison(tokens, current) ==
    parseComparisonFrom(tokens, parseAdditionAndSubtraction(tokens, current))

\* a faulty variant of parseAssignmentNode: a target that is no variable is dropped
parseAssignmentNodeLenient(left, right) ==
    IF right.st # "ok" THEN right
    ELSE IF left.node.k # "var" THEN right
    ELSE Parsed(AssignNode(left.node.name, right.node), right.cur)

\* the AssignNode for the target left and the value right
parseAssignmentNode(left, right) ==
    IF right.st # "ok" THEN right
    ELSE IF left.node.k # "var" THEN ParseError("Invalid assignment target", right.cur)
    ELSE Parsed(AssignNode(left.node.name, right.node), right.cur)

\* the optional "=" and value after the expression left
parseAssignmentFrom(tokens, left) ==
    IF left.st # "ok" THEN left
    ELSE IF peekIs(tokens, left.cur, "OP", <<"=">>)
    THEN parseAssignmentNode(left, parseAssignment(tokens, advance(tokens, left.cur)))
    ELSE left

parseAssignment(tokens, current) == parseAssignmentFrom(tokens, parseComparison(tokens, current))

\* one turn of the loop of parseBlock after parse() gave stmt, next being the cursor
\* after the optional NEWLINE.  A turn that leaves the cursor where it was repeats
\* for ever.
parseBlockNext(tokens, current, statements, stmt, next) ==
    IF stmt.st # "ok" THEN stmt
    ELSE IF next = current THEN [ParseError("", current) EXCEPT !.st = "hang"]
    ELSE parseBlockLoop(tokens, next, Append(statements, stmt.node))

parseBlockStatement(tokens, current, statements, stmt) ==
    parseBlockNext(tokens, current, statements, stmt,
        IF stmt.st = "ok" /\ peek(tokens, stmt.cur).type = "NEWLINE"
        THEN advance(tokens, stmt.cur) ELSE stmt.cur)

\* the while loop of parseBlock and the dedent after it; node is the statement list
parseBlockLoop(tokens, current, statements) ==
    IF peek(tokens, current).type \notin {"DEDENT", "EOF"}
    THEN parseBlockStatement(tokens, current, statements, parse(tokens, current))
    ELSE IF peek(tokens, current).type = "DEDENT"
    THEN Parsed(statements, advance(tokens, current))
    ELSE ParseError("Expected dedent after block", current)

parseBlock(tokens, current) ==
    IF peek(tokens, current).type # "NEWLINE"
    THEN ParseError("Expected newline after statement", current)
    ELSE IF peek(tokens, advance(tokens, current)).type # "INDENT"
    THEN ParseError("Expected indent after statement", advance(tokens, current))
    ELSE parseBlockLoop(tokens, advance(tokens, advance(tokens, current)), <<>>)

\* the optional else of parseIfStatement and parseWhileStatement; node is its body
parseElse(tokens, current) ==
    IF peekIs(tokens, current, "KEYWORD", KwElse)
    THEN IF ~peekIs(tokens, advance(tokens, current), "OP", <<":">>)
         THEN ParseError("Expected ':' after else", advance(tokens, current))
         ELSE parseBlock(tokens, advance(tokens, advance(tokens, current)))
    ELSE Parsed(<<>>, current)

\* node is <<condition, body>>, the block having been parsed as body
parseClause(condition, body) ==
    IF body.st # "ok" THEN body ELSE Parsed(<<condition.node, body.node>>, body.cur)

\* the ':' and the block after the condition
parseColonAndBlock(tokens, what, condition) ==
    IF condition.st # "ok" THEN condition
    ELSE IF ~peekIs(tokens, condition.cur, "OP", <<":">>)
    THEN ParseError(what, condition.cur)
    ELSE parseClause(condition, parseBlock(tokens, advance(tokens, condition.cur)))

\* a condition, the ':' and the block after it; node is <<condition, body>>
parseConditionAndBlock(tokens, current, what) ==
    parseColonAndBlock(tokens, what, parseAssignment(tokens, current))

\* return std::make_shared<IfNode>(condition, body, elifs, elseBody)
parseIfNode(condition, body, elifs, elseBody) ==
    IF elseBody.st # "ok" THEN elseBody
    ELSE Parsed(IfNode(condition, body, elifs, elseBody.node), elseBody.cur)

\* elifs.emplace_back(elifCondition, elifBody)
parseElifClause(tokens, condition, body, elifs, clause) ==
    IF clause.st # "ok" THEN clause
    ELSE parseElifs(tokens, clause.cur, condition, body, Append(elifs, clause.node))

\* the elif loop of parseIfStatement, the else and the node
parseElifs(tokens, current, condition, body, elifs) ==
    IF peekIs(tokens, current, "KEYWORD", KwElif)
    THEN parseElifClause(tokens, condition, body, elifs,
             parseConditionAndBlock(tokens, advance(tokens, current),
                                    "Expected ':' after elif condition"))
    ELSE parseIfNode(condition, body, elifs, parseElse(tokens, current))

parseIfClause(tokens, clause) ==
    IF clause.st # "ok" THEN clause
    ELSE parseElifs(tokens, clause.cur, clause.node[1], clause.node[2], <<>>)

parseIfStatement(tokens, current) ==
    parseIfClause(tokens, parseConditionAndBlock(tokens, advance(tokens, current),
                              "Expected ':' after if condition"))

\* return std::make_shared<WhileNode>(condition, body, elseBody)
parseWhileNode(clause, elseBody) ==
    IF elseBody.st # "ok" THEN elseBody
    ELSE Parsed(WhileNode(clause.node[1], clause.node[2], elseBody.node), elseBody.cur)

parseWhileClause(tokens, clause) ==
    IF clause.st # "ok" THEN clause
    ELSE parseWhileNode(clause, parseElse(tokens, clause.cur))

parseWhileStatement(tokens, current) ==
    parseWhileClause(tokens, parseConditionAndBlock(tokens, advance(tokens, current),
                                 "Expected ':' after while-condition"))

\* the dispatch of parse on the token at the cursor
parseStatement(tokens, current, token) ==
    IF token.type = "KEYWORD" /\ token.value = KwIf THEN parseIfStatement(tokens, current)
    ELSE IF token.type = "KEYWORD" /\ token.value = KwWhile THEN parseWhileStatement(tokens, current)
    ELSE IF token.type = "KEYWORD" /\ token.value = KwBreak THEN parseBreakStatement(tokens, current)
    ELSE IF token.type = "KEYWORD" /\ token.value = KwContinue THEN parseContinueStatement(tokens, current)
    ELSE parseAssignment(tokens, current)

parse(tokens, current) == parseStatement(tokens, current, peek(tokens, current))

(***************************************************************************)
(* Interpreter (Interpreter.cpp)                                           *)
(***************************************************************************)
\* the loop iterations one call of eval may make in this model
MaxIter == 6

\* what executeCode did: out is "printed" (the result was printed), "silent"
\* (an assignment, if or while: nothing printed), "error" ("Error: " and msg
\* printed by the catch), "uncaught" (an exception that is no std::runtime_error
\* left executeCode), "ub", "hang", "diverge" or "unmodelled"
Done(out, msg, v, e, lx, tokens, ast, log) ==
    [out |-> out, msg |-> msg, v |-> v, env |-> e, lexer |-> lx,
     tokens |-> tokens, ast |-> ast, log |-> log]

\* the printing and the catch, r being what ast->eval(env) returned or threw
executeResult(ast, lx, tokens, r) ==
    CASE r.st = "ok" ->
            Done(IF ast.k \in {"assign", "if", "while"} THEN "silent" ELSE "printed",
                 "", r.v, r.env, lx, tokens, ast, r.log)
      [] r.st = "err" -> Done("error", r.msg, DefaultValue, r.env, lx, tokens, ast, r.log)
      [] r.st \in {"break", "continue"} ->
            Done("uncaught", r.st, DefaultValue, r.env, lx, tokens, ast, r.log)
      [] OTHER -> Done(r.st, r.msg, DefaultValue, r.env, lx, tokens, ast, r.log)

\* const auto result = ast->eval(env) and what follows
executeAst(ast, e, lx, tokens) == executeResult(ast, lx, tokens, Eval(ast, e, MaxIter, <<>>))

\* what follows parser.parse(), which returned or threw parsed
executeParsed(tokens, e, lx, parsed) ==
    IF parsed.st = "err"
    THEN Done("error", parsed.msg, DefaultValue, e, lx, tokens, NullNode, <<>>)
    ELSE IF parsed.st # "ok"
    THEN Done(parsed.st, "", DefaultValue, e, lx, tokens, NullNode, <<>>)
    ELSE executeAst(parsed.node, e, lx, tokens)

\* Parser parser(tokens); ast = parser.parse(); and what follows
executeTokens(tokens, e, lx) == executeParsed(tokens, e, lx, parse(tokens, 0))

\* what follows lexer.tokenize(code), which returned or threw lexed
executeLexed(e, lexed) ==
    IF lexed.st # "ok"
    THEN Done("error", lexed.msg, DefaultValue, e, lexed.lx, <<>>, NullNode, <<>>)
    ELSE executeTokens(lexed.tokens, e, lexed.lx)

executeCode(code, lx, e) == executeLexed(e, tokenize(code, lx))

EXIT_COMMANDS ==
    {<<"e", "x", "i", "t">>, <<"q", "u", "i", "t">>, <<"q">>, <<"Q">>}

isExitCommand(input) == input \in EXIT_COMMANDS

RECURSIVE assembleCodeUnjoined(_)
\* a faulty variant of assembleCode: the lines are not separated
assembleCodeUnjoined(lines) ==
    IF lines = <<>> THEN <<>> ELSE lines[1] \o assembleCodeUnjoined(Tail(lines))

RECURSIVE assembleCode(_)
assembleCode(lines) ==
    IF lines = <<>> THEN <<>>
    ELSE IF Len(lines) = 1 THEN lines[1]
    ELSE lines[1] \o <<"\n">> \o assembleCode(Tail(lines))

(***************************************************************************)
(* The lines typed at the prompt                                           *)
(***************************************************************************)
\* i = 0
LineAssignI == <<"i", " ", "=", " ", "0">>

\* while i < 3:
LineWhile == <<"w", "h", "i", "l", "e", " ", "i", " ", "<", " ", "3", ":">>

\*     i = i + 1
LineBody == <<" ", " ", " ", " ", "i", " ", "=", " ", "i", " ", "+", " ", "1">>

\* an empty line
LineEmpty == <<>>

\* i
LineI == <<"i">>

\* x = 5
LineAssignX == <<"x", " ", "=", " ", "5">>

\* i = x
LineAssignIX == <<"i", " ", "=", " ", "x">>

\* x
LineX == <<"x">>

\* 'a
LineUnterminated == <<"'", "a">>

\* 7 // 0
LineDivZero == <<"7", " ", "/", "/", " ", "0">>

\* )
LineParen == <<")">>

\* exit
LineExit == <<"e", "x", "i", "t">>

\* break
LineBreak == <<"b", "r", "e", "a", "k">>

Lines ==
    {LineAssignI, LineWhile, LineBody, LineEmpty, LineI, LineAssignX, LineAssignIX,
     LineX, LineUnterminated, LineDivZero, LineParen, LineExit, LineBreak}

\* the lines typed at the continuation prompt, while a block is being entered
BlockLines == {LineBody, LineI, LineEmpty, LineExit}

\* the lines the buffer may hold in this model
MaxBuf == 2

\* the magnitude a bound number may have in this model
MaxVal == 5

WithinBounds(e) ==
    \A n \in DOMAIN e :
        CASE e[n].t = "int" -> Abs(e[n].v) <= MaxVal
          [] e[n].t = "float" -> Abs(e[n].n) <= MaxVal * e[n].d
          [] OTHER -> TRUE

(***************************************************************************)
(* Interpreter::run: one action is one turn of its loop                    *)
(***************************************************************************)
NoCall ==
    [code |-> <<>>, before |-> NewEnvironment, lexerBefore |-> NewLexer, out |-> "none",
     msg |-> "", v |-> DefaultValue, tokens |-> <<>>, ast |-> NullNode, log |-> <<>>]

NoResult == [out |-> "none"]

RECURSIVE ApplySets(_, _)
\* history: the bindings after the AssignNode evaluations a log records
ApplySets(f, log) ==
    IF log = <<>> THEN f
    ELSE ApplySets(IF Head(log).e = "set"
                   THEN [n \in DOMAIN f \cup {Head(log).name} |->
                            IF n = Head(log).name THEN Head(log).v ELSE f[n]]
                   ELSE f,
                   Tail(log))

\* how the process goes on after executeCode: an exception that leaves it ends the
\* process (std::terminate), undefined behaviour may end it or not
AfterCall(out) ==
    CASE out \in {"printed", "silent", "error"} -> {"run"}
      [] out = "uncaught" -> {"terminate"}
      [] out = "hang" -> {"hang"}
      [] out = "ub" -> {"crash", "run"}
      [] OTHER -> {}

\* the state after executeCode(code, lexer, env), which did r, and buffer.clear()
Executed(code, r) ==
    /\ WithinBounds(r.env)
    /\ running' \in AfterCall(r.out)
    /\ env' = r.env
    /\ lexer' = r.lexer
    /\ buffer' = <<>>
    /\ call' = [code |-> code, before |-> env, lexerBefore |-> lexer, out |-> r.out,
                msg |-> r.msg, v |-> r.v, tokens |-> r.tokens, ast |-> r.ast, log |-> r.log]
    /\ assigned' = ApplySets(assigned, r.log)

ExecuteString(code) == Executed(code, executeCode(code, lexer, env))

\* std::string code = assembleCode(buffer); executeCode(code, lexer, env); buffer.clear()
Execute(lines) == ExecuteString(assembleCode(lines))

\* one turn of the loop for a line that std::getline read
ReadLine(line) ==
    /\ running = "run"
    /\ UNCHANGED <<inp, res>>
    /\ IF ~isInBlock /\ isExitCommand(line)
       THEN running' = "exit" /\ UNCHANGED <<env, buffer, isInBlock, lexer, call, assigned>>
       ELSE IF isInBlock /\ line # <<>>
       THEN /\ Len(buffer) < MaxBuf
            /\ buffer' = Append(buffer, line)
            /\ UNCHANGED <<env, isInBlock, lexer, running, call, assigned>>
       ELSE IF ~isInBlock /\ line = <<>>
       THEN UNCHANGED <<env, buffer, isInBlock, lexer, running, call, assigned>>
       ELSE IF ~isInBlock /\ line[Len(line)] = ":"
       THEN /\ buffer' = Append(buffer, line)
            /\ isInBlock' = TRUE
            /\ UNCHANGED <<env, lexer, running, call, assigned>>
       ELSE /\ isInBlock' = FALSE
            /\ Execute(IF isInBlock THEN buffer ELSE Append(buffer, line))

\* std::getline fails: the loop ends
EndOfInput ==
    /\ running = "run"
    /\ running' = "eof"
    /\ UNCHANGED <<env, buffer, isInBlock, lexer, call, assigned, inp, res>>

Init ==
    /\ env = NewEnvironment
    /\ buffer = <<>>
    /\ isInBlock = FALSE
    /\ lexer = NewLexer
    /\ running = "run"
    /\ call = NoCall
    /\ assigned = NewEnvironment
    /\ inp = NoResult
    /\ res = NoResult

\* the lines that may be typed at the prompt shown
Typed == IF isInBlock THEN BlockLines ELSE Lines

Next == (\E line \in Typed : ReadLine(line)) \/ EndOfInput

Spec == Init /\ [][Next]_vars

(***************************************************************************)
(* Parser and eval on their own: one call of Parser(tokens).parse() and    *)
(* ast->eval(env) as executeCode makes it, for a token vector drawn from   *)
(* bounded arithmetic expressions.                                         *)
(***************************************************************************)
\* the largest number literal of the token inputs
MaxNum == 4

NumTok(n) == Token("NUMBER", <<DigitSeq[n + 1]>>, 1)

OpTok(op) == Token("OP", op, 1)

\* the binary operators of the token inputs
TokOps == {OpAdd, OpSub, OpMul, OpDiv, OpIntDiv, OpMod, OpPow}

\* a number literal, with or without a minus sign before it
Operand(n, neg) == IF neg THEN <<OpTok(OpSub), NumTok(n)>> ELSE <<NumTok(n)>>

Operands == {Operand(n, neg) : n \in 2..MaxNum, neg \in BOOLEAN}

\* operand (operator operand)*, up to three operands
TokInputs ==
    Operands
    \cup {a \o <<OpTok(o)>> \o b : a \in Operands, o \in TokOps, b \in Operands}
    \cup {a \o <<OpTok(o1)>> \o b \o <<OpTok(o2)>> \o c :
             a \in Operands, o1 \in TokOps, b \in Operands, o2 \in TokOps, c \in Operands}

\* tokens that begin no primary expression
StrayTokens ==
    {OpTok(<<")">>), OpTok(OpMul), OpTok(<<"=">>), OpTok(<<":">>),
     Token("KEYWORD", KwElse, 1), Token("KEYWORD", <<"d", "e", "f">>, 1),
     Token("NEWLINE", <<"\n">>, 1), Token("INDENT", <<" ">>, 1), Token("DEDENT", <<" ">>, 1)}

\* such a token where a primary expression is due: first, and after 2 +
StrayInputs ==
    {<<t>> : t \in StrayTokens} \cup {<<NumTok(2), OpTok(OpAdd), t>> : t \in StrayTokens}

IdTok(name) == Token("ID", name, 1)

NameA == <<"a">>

NameB == <<"b">>

\* expressions that are no variable reference: 2, a + 2, True, 's', - a
NonVariableTargets ==
    {<<NumTok(2)>>, <<IdTok(NameA), OpTok(OpAdd), NumTok(2)>>,
     <<Token("BOOL", <<"T", "r", "u", "e">>, 1)>>, <<Token("STRING", <<"s">>, 1)>>,
     <<OpTok(OpSub), IdTok(NameA)>>}

\* right sides that parse: v, b = v, v + 2
RightSides ==
    UNION {{<<NumTok(v)>>, <<IdTok(NameB), OpTok(<<"=">>), NumTok(v)>>,
            <<NumTok(v), OpTok(OpAdd), NumTok(2)>>} : v \in 2..MaxNum}

\* a right side that does not parse: ( 3
UnclosedRightSide == <<OpTok(<<"(">>), NumTok(3)>>

\* target = right side
AssignInputs ==
    {t \o <<OpTok(<<"=">>)>> \o r :
        t \in NonVariableTargets \cup {<<IdTok(NameA)>>}, r \in RightSides \cup {UnclosedRightSide}}

NewlineTok == Token("NEWLINE", <<"\n">>, 1)

\* the statements of a block: 2, or an operator that starts no expression, alone, after
\* a statement or before one
BlockBodies ==
    {<<NumTok(2)>>, <<NumTok(2), NewlineTok>>, <<NumTok(2), NewlineTok, NumTok(3), NewlineTok>>}
    \cup UNION {{<<OpTok(op)>>, <<OpTok(op), NewlineTok>>, <<NumTok(2), NewlineTok, OpTok(op)>>,
                 <<OpTok(op), NumTok(2)>>} : op \in {<<")">>, <<":">>, <<"]">>}}

\* if True: / while True: with the block body, as a lexer for blocks would hand it over
BlockInputs ==
    {<<Token("KEYWORD", kw, 1), Token("BOOL", <<"T", "r", "u", "e">>, 1), OpTok(<<":">>),
       NewlineTok, Token("INDENT", <<" ">>, 1)>> \o body \o <<Token("DEDENT", <<" ">>, 1)>> :
        kw \in {KwIf, KwWhile}, body \in BlockBodies}

\* a complete statement followed by more tokens: 1 2, x 1 = 5, 2 + 3 4, a = 2 3, ( 2 ) 3
LeftoverInputs ==
    {<<NumTok(1), NumTok(2)>>,
     <<IdTok(<<"x">>), NumTok(1), OpTok(<<"=">>), NumTok(5)>>,
     <<NumTok(2), OpTok(OpAdd), NumTok(3), NumTok(4)>>,
     <<IdTok(NameA), OpTok(<<"=">>), NumTok(2), NumTok(3)>>,
     <<OpTok(<<"(">>), NumTok(2), OpTok(<<")">>), NumTok(3)>>,
     <<NumTok(1), OpTok(<<")">>)>>}

TokenInputs == TokInputs \cup StrayInputs \cup AssignInputs \cup BlockInputs \cup LeftoverInputs

InitTok ==
    /\ env = NewEnvironment
    /\ buffer = <<>>
    /\ isInBlock = FALSE
    /\ lexer = NewLexer
    /\ running = "run"
    /\ call = NoCall
    /\ assigned = NewEnvironment
    /\ inp \in {[tokens |-> ts] : ts \in TokenInputs}
    /\ res = NoResult

\* Parser parser(tokens); parser.parse(); ast->eval(env)
RunTokens ==
    /\ res = NoResult
    /\ res' = executeTokens(inp.tokens, env, lexer)
    /\ UNCHANGED <<env, buffer, isInBlock, lexer, running, call, assigned, inp>>

NextTok == RunTokens

SpecTok == InitTok /\ [][NextTok]_vars

(***************************************************************************)
(* eval on its own: one call of ast->eval(env) as executeCode makes it,    *)
(* for a tree drawn from bounded families: while loops over the counter i, *)
(* divisions of two int literals, and break / continue outside a loop.     *)
(***************************************************************************)
\* the statements a loop body of the inputs may have
MaxBody == 3

\* the magnitude of the int operands of the divisions
MaxOperand == 7

NameI == <<"i">>

NameM == <<"m">>

NameE == <<"e">>

Lit(n) == ValueNode(IntV(n))

\* i = i + 1
StmtIncrement == AssignNode(NameI, BinOpNode(VarNode(NameI), OpAdd, Lit(1)))

\* m = i
StmtMark == AssignNode(NameM, VarNode(NameI))

\* if i == 1: break
StmtBreakAt1 == IfNode(BinOpNode(VarNode(NameI), OpEq, Lit(1)), <<BreakNode>>, <<>>, <<>>)

\* if i == 2: continue
StmtContinueAt2 == IfNode(BinOpNode(VarNode(NameI), OpEq, Lit(2)), <<ContinueNode>>, <<>>, <<>>)

BodyStmts == {StmtIncrement, StmtMark, BreakNode, ContinueNode, StmtBreakAt1, StmtContinueAt2}

RECURSIVE Bodies(_)
\* the statement lists of length 1..n
Bodies(n) ==
    IF n = 0 THEN {}
    ELSE {<<x>> : x \in BodyStmts} \cup Bodies(n - 1)
         \cup {Append(b, x) : b \in {c \in Bodies(n - 1) : Len(c) = n - 1}, x \in BodyStmts}

\* i < 3
CondBelow3 == BinOpNode(VarNode(NameI), OpLt, Lit(3))

\* e = 1
StmtElse == AssignNode(NameE, Lit(1))

WhileInputs == {WhileNode(CondBelow3, b, els) : b \in Bodies(MaxBody), els \in {<<>>, <<StmtElse>>}}

DivisionOps == {OpDiv, OpIntDiv, OpMod}

DivisionInputs ==
    {BinOpNode(Lit(a), op, Lit(b)) :
        a \in -MaxOperand..MaxOperand, op \in DivisionOps, b \in -MaxOperand..MaxOperand}

\* break and continue that no loop body encloses
OutsideInputs ==
    {BreakNode, ContinueNode,
     IfNode(ValueNode(BoolV(TRUE)), <<BreakNode>>, <<>>, <<>>),
     IfNode(ValueNode(BoolV(TRUE)), <<ContinueNode>>, <<>>, <<>>),
     IfNode(ValueNode(BoolV(FALSE)), <<StmtMark>>, <<>>, <<ContinueNode>>),
     WhileNode(CondBelow3, <<StmtIncrement>>, <<BreakNode>>),
     WhileNode(CondBelow3, <<StmtIncrement>>, <<ContinueNode>>)}

\* operand values of every kind the four scalar alternatives of Value::data have
TypedValues ==
    {IntV(-1), IntV(0), IntV(3), FloatV(2), Frac(1, 2), BoolV(TRUE), BoolV(FALSE),
     StrV(<<"a", "b">>), StrV(<<"b">>), StrV(<<>>)}

\* l op r for every pairing of operand values and every operator of opMap
TypedInputs ==
    {BinOpNode(ValueNode(l), op, ValueNode(r)) :
        l \in TypedValues, op \in KnownOperations, r \in TypedValues}

\* if False: m = i
IfNotTaken == IfNode(ValueNode(BoolV(FALSE)), <<StmtMark>>, <<>>, <<>>)

\* while False: i = i + 1
WhileNotEntered == WhileNode(ValueNode(BoolV(FALSE)), <<StmtIncrement>>, <<>>)

\* statements that return the Value they default-construct
EmptyResultInputs == {IfNotTaken, WhileNotEntered}

\* an if and a while whose condition is such a statement
TruthinessInputs ==
    {IfNode(c, <<StmtMark>>, <<>>, <<StmtElse>>) : c \in EmptyResultInputs}
    \cup {WhileNode(c, <<BreakNode>>, <<>>) : c \in EmptyResultInputs}

\* the elif clauses of the if inputs, at most
MaxElifs == 2

\* the variable branch k of an if input assigns
BranchName(k) == <<"b", DigitSeq[k + 1]>>

\* bk = k, then the expression 10 + k as the branch's last statement
BranchBody(k) == <<AssignNode(BranchName(k), Lit(k)), Lit(10 + k)>>

\* the index of the else branch
ElseBranch == MaxElifs + 1

\* elif clauses 1..n with the conditions conds[2..n + 1]
ElifClauses(conds) == [j \in 1..(Len(conds) - 1) |-> <<ValueNode(BoolV(conds[j + 1])), BranchBody(j)>>]

\* if conds[1]: ... elif conds[2]: ... with or without an else
IfOf(conds, withElse) ==
    IfNode(ValueNode(BoolV(conds[1])), BranchBody(0), ElifClauses(conds),
           IF withElse THEN BranchBody(ElseBranch) ELSE <<>>)

IfInputs ==
    {IfOf(conds, withElse) :
        conds \in UNION {[1..(n + 1) -> BOOLEAN] : n \in 0..MaxElifs}, withElse \in BOOLEAN}

NameJ == <<"j">>

NameK == <<"k">>

NameN == <<"n">>

\* n = 1
StmtAfterSignal == AssignNode(NameN, Lit(1))

\* the signal sig, bare and as the first statement of an if, elif and else body
SignalsOf(sig) ==
    {sig,
     IfNode(ValueNode(BoolV(TRUE)), <<sig, StmtAfterSignal>>, <<>>, <<>>),
     IfNode(ValueNode(BoolV(FALSE)), <<StmtAfterSignal>>,
            <<(<<ValueNode(BoolV(TRUE)), <<sig, StmtAfterSignal>> >>)>>, <<>>),
     IfNode(ValueNode(BoolV(FALSE)), <<StmtAfterSignal>>, <<>>, <<sig, StmtAfterSignal>>)}

SignalStmts == SignalsOf(BreakNode) \cup SignalsOf(ContinueNode)

\* while j < bound: j = j + 1; <signal>; m = i
InnerLoop(bound, signal) ==
    WhileNode(BinOpNode(VarNode(NameJ), OpLt, Lit(bound)),
              <<AssignNode(NameJ, BinOpNode(VarNode(NameJ), OpAdd, Lit(1))), signal, StmtMark>>, <<>>)

\* while i < 2: i = i + 1; <inner loop>; k = i   else: e = 1
OuterLoop(inner) ==
    WhileNode(BinOpNode(VarNode(NameI), OpLt, Lit(2)),
              <<StmtIncrement, inner, AssignNode(NameK, VarNode(NameI))>>, <<StmtElse>>)

\* if True: j = 0; <outer loop>
Nested(bound, signal) ==
    IfNode(ValueNode(BoolV(TRUE)),
           <<AssignNode(NameJ, Lit(0)), OuterLoop(InnerLoop(bound, signal))>>, <<>>, <<>>)

NestedInputs == {Nested(bound, signal) : bound \in {1, 3}, signal \in SignalStmts}

NameY == <<"y">>

\* 1 // 0
StmtFailing == BinOpNode(Lit(1), OpIntDiv, Lit(0))

\* statements that fail after an assignment was evaluated: (y = 1) + True,
\* (y = 1) // 0, a loop and an if whose body assigns and then fails
FailingInputs ==
    {BinOpNode(AssignNode(NameY, Lit(1)), OpAdd, ValueNode(BoolV(TRUE))),
     BinOpNode(AssignNode(NameY, Lit(1)), OpIntDiv, Lit(0)),
     WhileNode(CondBelow3, <<StmtIncrement, StmtMark, IfNode(BinOpNode(VarNode(NameI), OpEq, Lit(2)),
                                                            <<StmtFailing>>, <<>>, <<>>)>>, <<>>),
     WhileNode(CondBelow3, <<StmtIncrement, StmtFailing>>, <<>>),
     IfNode(ValueNode(BoolV(TRUE)), <<AssignNode(NameY, Lit(1)), VarNode(NameN)>>, <<>>, <<>>)}

AstInputs ==
    WhileInputs \cup DivisionInputs \cup OutsideInputs \cup TypedInputs
    \cup EmptyResultInputs \cup TruthinessInputs \cup IfInputs \cup NestedInputs
    \cup FailingInputs

\* the Environment of the inputs: i = 0
EnvI0 == Environment_set(NewEnvironment, NameI, IntV(0))

InitEval ==
    /\ env = EnvI0
    /\ buffer = <<>>
    /\ isInBlock = FALSE
    /\ lexer = NewLexer
    /\ running = "run"
    /\ call = NoCall
    /\ assigned = NewEnvironment
    /\ inp \in {[ast |-> a] : a \in AstInputs}
    /\ res = NoResult

\* const auto result = ast->eval(env), the printing and the catch
RunAst ==
    /\ res = NoResult
    /\ res' = executeAst(inp.ast, env, lexer, <<>>)
    /\ UNCHANGED <<env, buffer, isInBlock, lexer, running, call, assigned, inp>>

NextEval == RunAst

SpecEval == InitEval /\ [][NextEval]_vars

(***************************************************************************)
(* executeCode on its own: one call on a source text, with a new Lexer and *)
(* an empty Environment.  The texts are the number lexemes over 5, 0 and   *)
(* '.', and the comparisons of two digits.                                 *)
(***************************************************************************)
\* the characters of the longest number lexeme
MaxLexeme == 4

\* the largest digit compared
MaxDigit == 3

RECURSIVE Strings(_, _)
\* the strings of at most n characters drawn from chars
Strings(chars, n) ==
    IF n = 0 THEN {<<>>}
    ELSE Strings(chars, n - 1)
         \cup {Append(s, c) : s \in {t \in Strings(chars, n - 1) : Len(t) = n - 1}, c \in chars}

\* a digit, then digits and '.'
NumberLexemes == {s \in Strings({"5", "0", "."}, MaxLexeme) : s # <<>> /\ s[1] # "."}

ComparisonOps == {OpEq, OpNe, OpLt, OpGt, OpLe, OpGe}

\* a op b as typed, a and b being digits
ComparisonSource(a, op, b) == <<DigitSeq[a + 1], " ">> \o op \o <<" ", DigitSeq[b + 1]>>

ComparisonSources ==
    {ComparisonSource(a, op, b) : a \in 1..MaxDigit, op \in ComparisonOps, b \in 1..MaxDigit}

\* lines that hold no complete expression: ")", "2 +", "* 2", blanks, a comment, "x ="
IncompleteSources ==
    {<<")">>, <<"2", " ", "+">>, <<"*", " ", "2">>, <<" ">>, <<" ", "\t">>,
     <<"#", " ", "c">>, <<"x", " ", "=">>, <<"(", ")">>, <<"-">>}

\* int literals at and above the largest 32-bit int: 2147483647, 2147483648, 9999999999
WideLiterals ==
    {<<"2", "1", "4", "7", "4", "8", "3", "6", "4", "7">>,
     <<"2", "1", "4", "7", "4", "8", "3", "6", "4", "8">>,
     <<"9", "9", "9", "9", "9", "9", "9", "9", "9", "9">>}

SourceInputs == NumberLexemes \cup ComparisonSources \cup IncompleteSources \cup WideLiterals

InitSrc ==
    /\ env = NewEnvironment
    /\ buffer = <<>>
    /\ isInBlock = FALSE
    /\ lexer = NewLexer
    /\ running = "run"
    /\ call = NoCall
    /\ assigned = NewEnvironment
    /\ inp \in {[code |-> c] : c \in SourceInputs}
    /\ res = NoResult

\* executeCode(code)
RunCode ==
    /\ res = NoResult
    /\ res' = executeCode(inp.code, lexer, env)
    /\ UNCHANGED <<env, buffer, isInBlock, lexer, running, call, assigned, inp>>

NextSrc == RunCode

SpecSrc == InitSrc /\ [][NextSrc]_vars

(***************************************************************************)
(* tokenize on its own: one call on a source text, with a new Lexer.  The  *)
(* texts are every string of at most MaxText characters over a comment     *)
(* sign, a newline, a space, a tab, a quote, a letter, a digit and an      *)
(* operator character, and the words of the language.                      *)
(***************************************************************************)
MaxText == 4

LexChars == {"#", "\n", " ", "\t", "'", "a", "1", "="}

Texts == Strings(LexChars, MaxText)

KwDef == <<"d", "e", "f">>

\* the reserved words of the language
ReservedWords == {KwIf, KwElif, KwElse, KwWhile, KwBreak, KwContinue, KwDef}

\* runs of letters and underscores
Words ==
    ReservedWords \cup BoolLexemes
    \cup {<<"x">>, <<"_", "a">>, <<"i", "f", "f">>, <<"w", "h", "i", "l", "e", "_">>, <<"t", "r", "u", "e">>}

LexInputs == Texts \cup Words

InitLex ==
    /\ env = NewEnvironment
    /\ buffer = <<>>
    /\ isInBlock = FALSE
    /\ lexer = NewLexer
    /\ running = "run"
    /\ call = NoCall
    /\ assigned = NewEnvironment
    /\ inp \in {[code |-> c] : c \in LexInputs}
    /\ res = NoResult

\* what a call of tokenize gave: the tokens returned or the error thrown
Lexed(r) ==
    [out |-> IF r.st = "ok" THEN "tokens" ELSE "error", msg |-> r.msg,
     tokens |-> r.tokens, lexer |-> r.lx]

\* lexer.tokenize(code)
RunTokenize ==
    /\ res = NoResult
    /\ res' = Lexed(tokenize(inp.code, lexer))
    /\ UNCHANGED <<env, buffer, isInBlock, lexer, running, call, assigned, inp>>

NextLex == RunTokenize

SpecLex == InitLex /\ [][NextLex]_vars

(***************************************************************************)
(* Properties                                                              *)
(***************************************************************************)
\* the Value val is the number n, as an int or as a double
NumEq(val, n) ==
    \/ val.t = "int" /\ val.v = n
    \/ val.t = "float" /\ val.d # 0 /\ val.n = n * val.d

\* the block statement `while i < 3:` / `    i = i + 1` as Interpreter::run assembles it
WhileSource == assembleCode(<<LineWhile, LineBody>>)

\* C1: after `i = 0`, running the block statement `while i < 3:` with the indented
\* body `i = i + 1` from source text completes without error and leaves i bound to 3
C1_WhileLeavesThree ==
    (/\ call.code = WhileSource
     /\ call.lexerBefore.pos = 0
     /\ NameI \in DOMAIN call.before
     /\ NumEq(call.before[NameI], 0))
        => (call.out = "silent" /\ NameI \in DOMAIN env /\ NumEq(env[NameI], 3))

\* C2: a break or continue evaluated outside any while loop never leaves executeCode
\* as an exception: it ends as an error that the handler of executeCode catches
C2_SignalBecomesError ==
    (res.out # "none" /\ inp.ast \in OutsideInputs) => res.out = "error"

\* C3: every failure of tokenize, parse or eval is caught at its statement (an error
\* is printed, the loop resumes, the earlier bindings are retained), and the run loop
\* ends only on an exit command or the end of the input
C3_EveryFailureCaught ==
    /\ running \in {"run", "exit", "eof"}
    /\ call.out \in {"none", "printed", "silent", "error"}
    /\ call.out = "error" =>
           \A n \in DOMAIN call.before : n \in DOMAIN env /\ env[n] = call.before[n]

\* two calls of tokenize gave the same outcome: the same kinds and lexemes
SameTokens(a, b) == a.st = b.st /\ KindsLexemes(a.tokens) = KindsLexemes(b.tokens)

\* C4: tokenize(B) on a Lexer that tokenized some A before returns the kinds and
\* lexemes that a freshly constructed Lexer returns for B
C4_TokenizeIndependent ==
    call.out # "none" =>
        SameTokens(tokenize(call.code, call.lexerBefore), tokenize(call.code, NewLexer))

\* the path p lies in the body of the loop at the root of the tree
InLoopBody(p) == Len(p) >= 3 /\ p[1] = PathTag("body")

\* the k-th entry of the log is a break (a continue) evaluated in the root loop's body
BreakAt(log, k) == log[k].e = "break" /\ InLoopBody(log[k].p)

ContinueAt(log, k) == log[k].e = "continue" /\ InLoopBody(log[k].p)

\* the root loop ended because its condition was false
EndedFalsy(log) == \E k \in 1..Len(log) : log[k] = Ev(<<>>, "falsy", 0, 0)

\* a statement of the root loop's else body was evaluated
ElseRan(log) == \E k \in 1..Len(log) : log[k].p = <<>> /\ log[k].e = "else"

\* while i < 3: i = i + 1; if i == 1: break   else: e = 1
WhileBreakExample == WhileNode(CondBelow3, <<StmtIncrement, StmtBreakAt1>>, <<StmtElse>>)

\* C5: a break evaluated in the loop body stops the loop at once: nothing of the
\* iteration, of the loop or of the else body is evaluated after it; the else body
\* is evaluated exactly when the loop ended because its condition was false; with
\* i = 0 and the body `i = i + 1; if i == 1: break`, i ends as 1 and else does not run
C5_BreakStopsLoop ==
    (res.out # "none" /\ inp.ast \in WhileInputs) =>
        /\ \A k \in 1..Len(res.log) :
               BreakAt(res.log, k) => k = Len(res.log) /\ res.out = "silent"
        /\ (\E k \in 1..Len(res.log) : BreakAt(res.log, k)) =>
               ~ElseRan(res.log) /\ NameE \notin DOMAIN res.env
        /\ inp.ast.elseBody # <<>> =>
               /\ ElseRan(res.log) <=> EndedFalsy(res.log)
               /\ NameE \in DOMAIN res.env <=> EndedFalsy(res.log)
        /\ inp.ast = WhileBreakExample =>
               /\ res.out = "silent"
               /\ NumEq(res.env[NameI], 1)
               /\ NameE \notin DOMAIN res.env

\* the loop of the example broke at i = 1 and its else body did not run
C5_Witness ==
    /\ res.out = "silent"
    /\ inp.ast = WhileBreakExample
    /\ BreakAt(res.log, Len(res.log))
    /\ NumEq(res.env[NameI], 1)
    /\ NameE \notin DOMAIN res.env

\* while i < 3: i = i + 1; if i == 2: continue; m = i   else: e = 1
WhileContinueExample ==
    WhileNode(CondBelow3, <<StmtIncrement, StmtContinueAt2, StmtMark>>, <<StmtElse>>)

\* C6: after a continue evaluated in the loop body, the next thing evaluated is the
\* loop condition (no statement after it in the iteration); the continue does not
\* end the loop, which goes on while the condition is true, and does not keep the
\* else body from running
C6_ContinueRechecks ==
    (res.out # "none" /\ inp.ast \in WhileInputs) =>
        /\ \A k \in 1..Len(res.log) :
               ContinueAt(res.log, k) =>
                   IF k < Len(res.log) THEN res.log[k + 1] = Ev(<<>>, "cond", 0, 0)
                   ELSE res.out = "diverge"
        /\ \A k \in 1..Len(res.log) :
               (res.log[k] = Ev(<<>>, "cond", 0, 0) /\ k < Len(res.log)) =>
                   res.log[k + 1] \in {Ev(<<>>, "body", 1, 0), Ev(<<>>, "falsy", 0, 0)}
        /\ (/\ res.out = "silent"
            /\ \E k \in 1..Len(res.log) : ContinueAt(res.log, k)
            /\ ~\E k \in 1..Len(res.log) : BreakAt(res.log, k)) =>
               /\ EndedFalsy(res.log)
               /\ \E n \in 3..(3 + MaxBody) : NumEq(res.env[NameI], n)
               /\ inp.ast.elseBody # <<>> => ElseRan(res.log) /\ NameE \in DOMAIN res.env
        /\ inp.ast = WhileContinueExample =>
               /\ res.out = "silent"
               /\ NumEq(res.env[NameI], 3)
               /\ NumEq(res.env[NameM], 3)

\* the loop of the example continued at i = 2, went on to i = 3 and ran its else body
C6_Witness ==
    /\ res.out = "silent"
    /\ inp.ast = WhileContinueExample
    /\ \E k \in 1..Len(res.log) : ContinueAt(res.log, k)
    /\ NumEq(res.env[NameI], 3)
    /\ NameE \in DOMAIN res.env

\* C7: the Environment holds, for each name, the value of the most recent assignment
\* to it; a reference to a name yields that value and changes no binding, or fails
\* with "Undefined variable" and changes no binding when the name was never assigned;
\* an assignment yields the value it binds and leaves every other binding as it was
C7_GetAfterSet ==
    /\ env = assigned
    /\ (call.out # "none" /\ call.ast.k = "var") =>
           /\ env = call.before
           /\ IF call.ast.name \in DOMAIN assigned
              THEN call.out = "printed" /\ call.v = assigned[call.ast.name]
              ELSE call.out = "error" /\ call.msg = "Undefined variable"
    /\ (call.out = "silent" /\ call.ast.k = "assign") =>
           /\ DOMAIN env = DOMAIN call.before \cup {call.ast.varName}
           /\ env[call.ast.varName] = call.v
           /\ assigned[call.ast.varName] = call.v
           /\ \A n \in DOMAIN call.before \ {call.ast.varName} : env[n] = call.before[n]

\* i, bound by i = x after x = 5, is read: 5 is printed and no binding changes
C7_Witness ==
    /\ call.out = "printed"
    /\ call.ast = VarNode(NameI)
    /\ call.v = IntV(5)
    /\ env = call.before

\* the quotient of the ints a and b # 0 truncated toward zero
Quotient(a, b) == IF (a < 0) = (b < 0) THEN Abs(a) \div Abs(b) ELSE -(Abs(a) \div Abs(b))

\* the operands of a division of two int literals
LeftInt(node) == node.left.value.v

RightInt(node) == node.right.value.v

\* C8: for ints a and b within MaxOperand: with b = 0 each of a / b, a // b and a % b
\* fails with "Division by zero"; with b # 0, a // b is the quotient truncated toward
\* zero and a % b the remainder that goes with it; 7 // 2 is 3 and 7 % 2 is 1
C8_DivisionByZeroAndTruncation ==
    (res.out # "none" /\ inp.ast \in DivisionInputs) =>
        /\ RightInt(inp.ast) = 0 => res.out = "error" /\ res.msg = "Division by zero"
        /\ (RightInt(inp.ast) # 0 /\ inp.ast.op = OpIntDiv) =>
               /\ res.out = "printed"
               /\ res.v = IntV(Quotient(LeftInt(inp.ast), RightInt(inp.ast)))
        /\ (RightInt(inp.ast) # 0 /\ inp.ast.op = OpMod) =>
               /\ res.out = "printed"
               /\ res.v = IntV(LeftInt(inp.ast)
                               - RightInt(inp.ast) * Quotient(LeftInt(inp.ast), RightInt(inp.ast)))
        /\ inp.ast = BinOpNode(Lit(7), OpIntDiv, Lit(2)) => res.v = IntV(3)
        /\ inp.ast = BinOpNode(Lit(7), OpMod, Lit(2)) => res.v = IntV(1)

\* -7 // 2 was evaluated to -3: the quotient is truncated, not floored
C8_Witness ==
    /\ res.out = "printed"
    /\ inp.ast = BinOpNode(Lit(-7), OpIntDiv, Lit(2))
    /\ res.v = IntV(-3)

\* the leaf a number token parses to
Leaf(tok) == Lit(DigitVal(tok.value[1]))

AdditiveOps == {OpAdd, OpSub}

MultiplicativeOps == {OpMul, OpDiv, OpIntDiv, OpMod}

\* the tokens are a o1 b o2 c with number literals a, b, c
IsChain(ts) ==
    /\ Len(ts) = 5
    /\ \A k \in {1, 3, 5} : ts[k].type = "NUMBER"
    /\ \A k \in {2, 4} : ts[k].type = "OP"

\* (a o1 b) o2 c
LeftTree(ts) ==
    BinOpNode(BinOpNode(Leaf(ts[1]), ts[2].value, Leaf(ts[3])), ts[4].value, Leaf(ts[5]))

\* a o1 (b o2 c)
RightTree(ts) ==
    BinOpNode(Leaf(ts[1]), ts[2].value, BinOpNode(Leaf(ts[3]), ts[4].value, Leaf(ts[5])))

\* 2 + 3 * 4
TokensSum == <<NumTok(2), OpTok(OpAdd), NumTok(3), OpTok(OpMul), NumTok(4)>>

\* C9: a multiplicative operator binds tighter than an additive one, and operators of
\* one of these levels group to the left: a + b * c parses to +(a, *(b, c)),
\* a - b - c to -(-(a, b), c); 2 + 3 * 4 evaluates to 14
C9_PrecedenceAndLeftAssociativity ==
    (res.out # "none" /\ IsChain(inp.tokens)) =>
        /\ (inp.tokens[2].value \in AdditiveOps /\ inp.tokens[4].value \in MultiplicativeOps) =>
               res.ast = RightTree(inp.tokens)
        /\ (inp.tokens[2].value \in MultiplicativeOps /\ inp.tokens[4].value \in AdditiveOps) =>
               res.ast = LeftTree(inp.tokens)
        /\ (inp.tokens[2].value \in AdditiveOps /\ inp.tokens[4].value \in AdditiveOps) =>
               res.ast = LeftTree(inp.tokens)
        /\ (inp.tokens[2].value \in MultiplicativeOps /\ inp.tokens[4].value \in MultiplicativeOps) =>
               res.ast = LeftTree(inp.tokens)
        /\ inp.tokens = TokensSum => res.out = "printed" /\ NumEq(res.v, 14)

\* 2 + 3 * 4 was parsed to +(2, *(3, 4)) and evaluated to 14
C9_Witness ==
    /\ res.out = "printed"
    /\ inp.tokens = TokensSum
    /\ res.ast = BinOpNode(Lit(2), OpAdd, BinOpNode(Lit(3), OpMul, Lit(4)))
    /\ NumEq(res.v, 14)

\* 0 - node, as parseUnaryMinus builds a negation
Negated(node) == BinOpNode(Lit(0), OpSub, node)

\* the tokens are - a ** b
IsNegatedPower(ts) ==
    /\ Len(ts) = 4
    /\ ts[1] = OpTok(OpSub)
    /\ ts[2].type = "NUMBER"
    /\ ts[3] = OpTok(OpPow)
    /\ ts[4].type = "NUMBER"

\* the tokens are a ** - b
IsPowerOfNegated(ts) ==
    /\ Len(ts) = 4
    /\ ts[1].type = "NUMBER"
    /\ ts[2] = OpTok(OpPow)
    /\ ts[3] = OpTok(OpSub)
    /\ ts[4].type = "NUMBER"

\* 2 ** 3 ** 2
TokensTower == <<NumTok(2), OpTok(OpPow), NumTok(3), OpTok(OpPow), NumTok(2)>>

\* - 2 ** 2
TokensMinusSquare == <<OpTok(OpSub), NumTok(2), OpTok(OpPow), NumTok(2)>>

\* C10: ** groups to the right and binds tighter than a minus sign before it:
\* a ** b ** c parses to **(a, **(b, c)) and 2 ** 3 ** 2 is 512; - a ** b parses to
\* 0 - (a ** b) and - 2 ** 2 is -4; a ** - b parses with 0 - b as the exponent
C10_PowerRightAssociative ==
    res.out # "none" =>
        /\ (/\ IsChain(inp.tokens)
            /\ inp.tokens[2].value = OpPow
            /\ inp.tokens[4].value = OpPow) => res.ast = RightTree(inp.tokens)
        /\ IsNegatedPower(inp.tokens) =>
               res.ast = Negated(BinOpNode(Leaf(inp.tokens[2]), OpPow, Leaf(inp.tokens[4])))
        /\ IsPowerOfNegated(inp.tokens) =>
               res.ast = BinOpNode(Leaf(inp.tokens[1]), OpPow, Negated(Leaf(inp.tokens[4])))
        /\ inp.tokens = TokensTower => res.out = "printed" /\ NumEq(res.v, 512)
        /\ inp.tokens = TokensMinusSquare => res.out = "printed" /\ NumEq(res.v, -4)

\* 2 ** 3 ** 2 was parsed to **(2, **(3, 2)) and evaluated to 512
C10_Witness ==
    /\ res.out = "printed"
    /\ inp.tokens = TokensTower
    /\ res.ast = BinOpNode(Lit(2), OpPow, BinOpNode(Lit(3), OpPow, Lit(2)))
    /\ NumEq(res.v, 512)

\* the two operand values of a binary operation on literals
LeftValue(node) == node.left.value

RightValue(node) == node.right.value

\* the operation failed with "Unsupported operation"
Unsupported == res.out = "error" /\ res.msg = "Unsupported operation"

\* what C11 says of l op r
StringDispatch(op, l, r) ==
    /\ (l.t = "int" /\ r.t = "str" /\ op = OpMul) =>
           res.out = "printed" /\ res.v = StrV(repeated(r.v, l.v))
    /\ (l.t = "str" /\ r.t = "int" /\ op = OpMul) =>
           res.out = "printed" /\ res.v = StrV(repeated(l.v, r.v))
    /\ ({l.t, r.t} = {"int", "str"} /\ op # OpMul) => Unsupported
    /\ (l.t = "str" /\ r.t = "str" /\ op \in {OpMul, OpSub, OpDiv, OpIntDiv, OpMod, OpPow}) =>
           Unsupported
    /\ {l.t, r.t} = {"float", "str"} => Unsupported
    /\ "bool" \in {l.t, r.t} => Unsupported

\* C11: for an int n and a string s, n * s and s * n are s repeated n times (3 * 'ab' and
\* 'ab' * 3 are 'ababab'); every other operator on an int and a string, each of
\* * - / // % ** on two strings, and every operator on a float with a string or on a
\* pairing with a bool operand fails with "Unsupported operation"
C11_StringRepetitionAndUnsupported ==
    (res.out # "none" /\ inp.ast \in TypedInputs) =>
        /\ StringDispatch(inp.ast.op, LeftValue(inp.ast), RightValue(inp.ast))
        /\ inp.ast = BinOpNode(Lit(3), OpMul, ValueNode(StrV(<<"a", "b">>))) =>
               res.v = StrV(<<"a", "b", "a", "b", "a", "b">>)
        /\ inp.ast = BinOpNode(ValueNode(StrV(<<"a", "b">>)), OpMul, Lit(3)) =>
               res.v = StrV(<<"a", "b", "a", "b", "a", "b">>)

\* 'ab' * 3 was evaluated to 'ababab'
C11_Witness ==
    /\ res.out = "printed"
    /\ inp.ast = BinOpNode(ValueNode(StrV(<<"a", "b">>)), OpMul, Lit(3))
    /\ res.v = StrV(<<"a", "b", "a", "b", "a", "b">>)

\* the literal node the statement parsed to has the tag t
LiteralOf(t) == res.ast.k = "value" /\ res.ast.value.t = t

\* the literal was evaluated and printed, where the model represents its value
LiteralPrinted == res.out \in {"printed", "unmodelled"} /\ (res.out = "printed" => res.v = res.ast.value)

\* C12: a number lexeme without '.' becomes an int literal, one with exactly one '.' a
\* float literal, and one with two or more '.' (a single NUMBER token) makes parse fail
\* with "Invalid number format": 5 is the int 5, 5.0 the float 5.0, 5.0.0 an error
C12_NumberClassification ==
    (res.out # "none" /\ inp.code \in NumberLexemes) =>
        /\ count(inp.code, ".") = 0 => LiteralOf("int") /\ LiteralPrinted
        /\ count(inp.code, ".") = 1 => LiteralOf("float") /\ LiteralPrinted
        /\ count(inp.code, ".") >= 2 =>
               /\ res.out = "error"
               /\ res.msg = "Invalid number format"
               /\ KindsLexemes(res.tokens) = <<(<<"NUMBER", inp.code>>)>>
        /\ inp.code = <<"5">> => res.v = IntV(5)
        /\ inp.code = <<"5", ".", "0">> => res.v = FloatV(5)
        /\ inp.code = <<"5", ".", "5">> => res.v = Frac(11, 2)
        /\ inp.code = <<"5", ".", "0", ".">> \/ inp.code = <<"5", ".", ".">> => res.out = "error"

\* 5.0 was read as one token and printed as the float 5.0
C12_Witness ==
    /\ inp.code = <<"5", ".", "0">>
    /\ res.out = "printed"
    /\ res.v = FloatV(5)
    /\ Len(res.tokens) = 1

\* the comparison a op b of two ints
Compares(a, op, b) ==
    CASE op = OpEq -> a = b
      [] op = OpNe -> a # b
      [] op = OpLt -> a < b
      [] op = OpGt -> a > b
      [] op = OpLe -> a <= b
      [] op = OpGe -> a >= b

\* the operator and the operands of a comparison as typed
SourceOp(code) == SubSeq(code, 3, Len(code) - 2)

SourceLeft(code) == DigitVal(code[1])

SourceRight(code) == DigitVal(code[Len(code)])

\* C13: each of the six comparison operators works from source text: a op b is lexed
\* to three tokens, the operator being one of them, and evaluates to the boolean
C13_ComparisonsFromSource ==
    (res.out # "none" /\ inp.code \in ComparisonSources) =>
        /\ KindsLexemes(res.tokens)
               = <<(<<"NUMBER", <<inp.code[1]>> >>), (<<"OP", SourceOp(inp.code)>>),
                   (<<"NUMBER", <<inp.code[Len(inp.code)]>> >>)>>
        /\ res.out = "printed"
        /\ res.v = BoolV(Compares(SourceLeft(inp.code), SourceOp(inp.code), SourceRight(inp.code)))

\* the kind C14 gives a run of letters and underscores
WordKind(word) ==
    IF word \in ReservedWords THEN "KEYWORD"
    ELSE IF word \in BoolLexemes THEN "BOOL"
    ELSE "ID"

\* C14: the lexer makes each of if, elif, else, while, break, continue and def one KEYWORD
\* token, True and False one BOOL token, and every other run of letters and underscores
\* one ID token
C14_ReservedWordsAreKeywords ==
    (res.out # "none" /\ inp.code \in Words) =>
        /\ res.out = "tokens"
        /\ KindsLexemes(res.tokens) = <<(<<WordKind(inp.code), inp.code>>)>>

ScalarTags == {"int", "float", "bool", "str"}

\* C15: the Value of an if that ran no branch, or of a while whose body never ran and
\* that has no else, is none of the Int, Float, Bool and Str values, the int 0 included,
\* and testing it for truthiness fails with "Unsupported type"
C15_EmptyValueIsDistinct ==
    /\ (res.out # "none" /\ inp.ast \in EmptyResultInputs) =>
           res.out = "silent" /\ res.v.t \notin ScalarTags /\ res.v # IntV(0)
    /\ (res.out # "none" /\ inp.ast \in TruthinessInputs) =>
           res.out = "error" /\ res.msg = "Unsupported type"

\* C16: a token that is no number, string, bool, identifier, ( or end of input, met
\* where a primary expression is due, makes parse fail with "Unexpected token"; an
\* operator other than ( is rejected, no empty node is returned for it
C16_StrayTokenRejected ==
    (res.out # "none" /\ inp.tokens \in StrayInputs) =>
        res.out = "error" /\ res.msg = "Unexpected token"

\* where the first = of the tokens is
FirstAssign(ts) == CHOOSE k \in 1..Len(ts) : ts[k] = OpTok(<<"=">>) /\ \A j \in 1..(k - 1) : ts[j] # OpTok(<<"=">>)

\* what C17 says of the tokens ts, whose first = is the k-th token
AssignmentParsed(ts, k) ==
    /\ (SubSeq(ts, 1, k - 1) \in NonVariableTargets /\ SubSeq(ts, k + 1, Len(ts)) \in RightSides) =>
           /\ res.out = "error"
           /\ res.msg = "Invalid assignment target"
           /\ res.env = NewEnvironment
    /\ (SubSeq(ts, 1, k - 1) \in NonVariableTargets /\ SubSeq(ts, k + 1, Len(ts)) = UnclosedRightSide) =>
           res.out = "error" /\ res.env = NewEnvironment
    /\ (SubSeq(ts, 1, k - 1) = <<IdTok(NameA)>> /\ SubSeq(ts, k + 1, Len(ts)) \in RightSides) =>
           /\ res.out = "silent"
           /\ res.ast.k = "assign"
           /\ res.ast.varName = NameA
           /\ res.ast.valueExpr = parseAssignment(SubSeq(ts, k + 1, Len(ts)), 0).node
           /\ NameA \in DOMAIN res.env

\* a = b = v parsed to assign(a, assign(b, v)) and bound a and b to v
ChainedAssignment(v) ==
    inp.tokens = <<IdTok(NameA), OpTok(<<"=">>), IdTok(NameB), OpTok(<<"=">>), NumTok(v)>> =>
        /\ res.ast = AssignNode(NameA, AssignNode(NameB, Lit(v)))
        /\ DOMAIN res.env = {NameA, NameB}
        /\ res.env[NameA] = IntV(v)
        /\ res.env[NameB] = IntV(v)

NumericInputs ==
    {node \in TypedInputs \cup DivisionInputs :
        LeftValue(node).t \in {"int", "float"} /\ RightValue(node).t \in {"int", "float"}}

\* the tag C18 gives the result of op
ResultTag(op) ==
    IF op \in {OpAdd, OpSub, OpMul, OpPow, OpDiv} THEN "float"
    ELSE IF op \in {OpMod, OpIntDiv} THEN "int"
    ELSE "bool"

\* C18: on two numeric operands, + - * ** / yield a float even for two ints, % and //
\* yield an int, and the six comparisons yield a bool: 3 + 3 is 6.0
C18_NumericResultTags ==
    (res.out # "none" /\ inp.ast \in NumericInputs) =>
        /\ res.out = "printed" => res.v.t = ResultTag(inp.ast.op)
        /\ inp.ast.op \in {OpAdd, OpSub, OpMul} \cup ComparisonOps => res.out = "printed"
        /\ (inp.ast.op \in {OpDiv, OpIntDiv} /\ ~NumEq(RightValue(inp.ast), 0)) => res.out = "printed"
        /\ inp.ast = BinOpNode(Lit(3), OpAdd, Lit(3)) => res.v = FloatV(6)
        /\ inp.ast = BinOpNode(Lit(3), OpPow, Lit(3)) => res.v = FloatV(27)
        /\ inp.ast = BinOpNode(Lit(3), OpDiv, Lit(3)) => res.v = FloatV(1)
        /\ inp.ast = BinOpNode(ValueNode(FloatV(2)), OpIntDiv, ValueNode(Frac(1, 2))) => res.v = IntV(4)
        /\ inp.ast = BinOpNode(ValueNode(FloatV(2)), OpMod, Lit(3)) => res.v = IntV(2)
        /\ inp.ast = BinOpNode(ValueNode(FloatV(2)), OpLe, Lit(3)) => res.v = BoolV(TRUE)

\* 3 // 3 on two ints was evaluated to the int 1, and not to a float
C18_Witness ==
    /\ inp.ast = BinOpNode(Lit(3), OpIntDiv, Lit(3))
    /\ res.out = "printed"
    /\ res.v = IntV(1)

Quotes == {"'", "\""}

RECURSIVE Uncommented(_, _)
\* the text with each comment, up to and with the newline that ends it, replaced by a
\* space; inComment tells whether the text starts within a comment
Uncommented(code, inComment) ==
    IF code = <<>> THEN <<>>
    ELSE IF inComment
    THEN IF Head(code) = "\n" THEN <<" ">> \o Uncommented(Tail(code), FALSE)
         ELSE Uncommented(Tail(code), TRUE)
    ELSE IF Head(code) = "#" THEN Uncommented(Tail(code), TRUE)
    ELSE <<Head(code)>> \o Uncommented(Tail(code), FALSE)

\* the text holds no string literal
Quoteless(code) == \A k \in 1..Len(code) : code[k] \notin Quotes

\* the lexemes of the tokens that are no string literal
Lexemes(tokens) == {tokens[k].value : k \in {j \in 1..Len(tokens) : tokens[j].type # "STRING"}}

\* C20: comments and blanks give no token: no lexeme outside a string literal is a space
\* or a tab, and the tokens of a text without strings are those of the text without its comments, also where a
\* comment line is followed by a comment line or by an indented line
C20_CommentsAndBlanksGiveNoToken ==
    res.out = "tokens" =>
        /\ <<" ">> \notin Lexemes(res.tokens)
        /\ <<"\t">> \notin Lexemes(res.tokens)
        /\ Quoteless(inp.code) =>
               KindsLexemes(res.tokens)
                   = KindsLexemes(tokenize(Uncommented(inp.code, FALSE), NewLexer).tokens)

RECURSIVE Unclosed(_, _)
\* a quote that opens a string literal of the text has no later matching quote; mode is
\* "code", "comment" or the quote of the string literal the text starts in
Unclosed(code, mode) ==
    IF code = <<>> THEN mode \in Quotes
    ELSE IF mode = "comment"
    THEN Unclosed(Tail(code), IF Head(code) = "\n" THEN "code" ELSE "comment")
    ELSE IF mode \in Quotes
    THEN Unclosed(Tail(code), IF Head(code) = mode THEN "code" ELSE mode)
    ELSE IF Head(code) = "#" THEN Unclosed(Tail(code), "comment")
    ELSE IF Head(code) \in Quotes THEN Unclosed(Tail(code), Head(code))
    ELSE Unclosed(Tail(code), "code")

RECURSIVE OperatorCharacters(_, _)
\* how many = the text holds outside its comments and string literals
OperatorCharacters(code, mode) ==
    IF code = <<>> THEN 0
    ELSE IF mode = "comment"
    THEN OperatorCharacters(Tail(code), IF Head(code) = "\n" THEN "code" ELSE "comment")
    ELSE IF mode \in Quotes
    THEN OperatorCharacters(Tail(code), IF Head(code) = mode THEN "code" ELSE mode)
    ELSE IF Head(code) = "#" THEN OperatorCharacters(Tail(code), "comment")
    ELSE IF Head(code) \in Quotes THEN OperatorCharacters(Tail(code), Head(code))
    ELSE (IF Head(code) = "=" THEN 1 ELSE 0) + OperatorCharacters(Tail(code), "code")

RECURSIVE OperatorLexemes(_)
\* how many = the OP tokens hold
OperatorLexemes(tokens) ==
    IF tokens = <<>> THEN 0
    ELSE (IF Head(tokens).type = "OP" THEN count(Head(tokens).value, "=") ELSE 0)
         + OperatorLexemes(Tail(tokens))

\* C19: tokenize ends on every text, with tokens or with "Unterminated string literal"
\* and then no tokens; it fails exactly when a quote that opens a string literal has no
\* later matching quote; and each = outside comments and string literals becomes an
\* operator token of one character or part of one of two
C19_TokenizeTotal ==
    res.out # "none" =>
        /\ res.out \in {"tokens", "error"}
        /\ res.out = "error" => res.msg = "Unterminated string literal" /\ res.tokens = <<>>
        /\ res.out = "error" <=> Unclosed(inp.code, "code")
        /\ res.out = "tokens" => OperatorLexemes(res.tokens) = OperatorCharacters(inp.code, "code")

\* the conditions of an if input, in source order, as booleans
ConditionsOf(node) ==
    [j \in 0..Len(node.elifs) |->
        IF j = 0 THEN node.condition.value.v ELSE node.elifs[j][1].value.v]

\* the branch an if input is to run: the first whose condition is true, else the else
\* branch, conds being its conditions
BranchOf(node, conds) ==
    IF \E j \in DOMAIN conds : conds[j]
    THEN CHOOSE j \in DOMAIN conds : conds[j] /\ \A i \in 0..(j - 1) : ~conds[i]
    ELSE ElseBranch

\* the log entry is the evaluation of a statement of branch k of the root if
StatementOf(entry, k) ==
    /\ entry.p = <<>>
    /\ \/ k = 0 /\ entry.e = "body"
       \/ k \in 1..MaxElifs /\ entry.e = "elif" /\ entry.j = k
       \/ k = ElseBranch /\ entry.e = "else"

\* what C21 says of the if input node, taken being the branch it is to run
FirstTruthyBranch(node, taken) ==
    /\ res.out = "silent"
    /\ \A j \in 0..Len(node.elifs) :
           (\E k \in 1..Len(res.log) : res.log[k] = Ev(<<>>, "cond", 0, j)) <=> j <= taken
    /\ \A k, l \in 1..Len(res.log) :
           (k < l /\ res.log[k].e = "cond" /\ res.log[l].e = "cond") => res.log[k].j < res.log[l].j
    /\ \A k \in 1..Len(res.log) :
           res.log[k].e \in {"body", "elif", "else"} => StatementOf(res.log[k], taken)
    /\ \A k \in 0..ElseBranch :
           BranchName(k) \in DOMAIN res.env <=> (k = taken /\ (k = ElseBranch => node.elseBody # <<>>))
    /\ IF taken = ElseBranch /\ node.elseBody = <<>>
       THEN \A k \in 1..Len(res.log) : res.log[k].e = "cond"
       ELSE /\ res.v = IntV(10 + taken)
            /\ \E k \in 1..Len(res.log) : res.log[k].e \in {"body", "elif", "else"} /\ res.log[k].i = 2

\* C21: IfNode::eval evaluates the conditions in source order and stops at the first
\* true one: that branch's body alone is evaluated and no later condition; the else
\* body is evaluated only when every condition was false; the result is the value of
\* the last statement of the branch that ran
C21_FirstTruthyBranch ==
    (res.out # "none" /\ inp.ast \in IfInputs) =>
        FirstTruthyBranch(inp.ast, BranchOf(inp.ast, ConditionsOf(inp.ast)))

\* if False / elif True / elif True / else: the first elif ran, the second was not tested
C21_Witness ==
    /\ inp.ast = IfOf(<<FALSE, TRUE, TRUE>>, TRUE)
    /\ res.out = "silent"
    /\ res.v = IntV(11)
    /\ DOMAIN res.env = {NameI, BranchName(1)}
    /\ ~\E k \in 1..Len(res.log) : res.log[k] = Ev(<<>>, "cond", 0, 2)

\* the paths of the outer and of the inner loop of a nested input
OuterPath == Child(<<>>, "body", 0, 2)

InnerPath == Child(OuterPath, "body", 0, 2)

\* the path p lies in the body of the inner loop
InInnerBody(p) ==
    /\ Len(p) >= Len(InnerPath) + 3
    /\ SubSeq(p, 1, Len(InnerPath)) = InnerPath
    /\ p[Len(InnerPath) + 1] = PathTag("body")

\* the nested inputs whose loops end within the iterations the model follows
EndingNested == NestedInputs \ {Nested(3, signal) : signal \in SignalsOf(ContinueNode)}

\* C22: a break or continue evaluated in the body of the inner while, bare or inside an
\* if, elif or else body, is consumed by the inner loop: after a break the outer
\* loop's next statement is evaluated, after a continue the inner condition is tested
\* again; the statements after the signal, in the if branch and in the inner body, are
\* not evaluated; the outer loop goes on until its own condition is false
C22_NearestLoopConsumesSignal ==
    (res.out # "none" /\ inp.ast \in NestedInputs) =>
        /\ \A k \in 1..Len(res.log) :
               (res.log[k].e = "break" /\ InInnerBody(res.log[k].p)) =>
                   k < Len(res.log) /\ res.log[k + 1] = Ev(OuterPath, "body", 3, 0)
        /\ \A k \in 1..Len(res.log) :
               (res.log[k].e = "continue" /\ InInnerBody(res.log[k].p)) =>
                   IF k < Len(res.log) THEN res.log[k + 1] = Ev(InnerPath, "cond", 0, 0)
                   ELSE res.out = "diverge"
        /\ \E k \in 1..Len(res.log) :
               res.log[k].e \in {"break", "continue"} /\ InInnerBody(res.log[k].p)
        /\ NameN \notin DOMAIN res.env
        /\ NameM \notin DOMAIN res.env
        /\ res.out \in {"silent", "diverge"}
        /\ inp.ast \in EndingNested => res.out = "silent"
        /\ res.out = "silent" =>
               /\ NumEq(res.env[NameI], 2)
               /\ NumEq(res.env[NameK], 2)
               /\ NameE \in DOMAIN res.env
               /\ \E k \in 1..Len(res.log) : res.log[k] = Ev(OuterPath, "falsy", 0, 0)

\* the inner loop broke inside an if in both iterations of the outer loop, which ended
\* on its own condition
C22_Witness ==
    /\ inp.ast = Nested(3, IfNode(ValueNode(BoolV(TRUE)), <<BreakNode, StmtAfterSignal>>, <<>>, <<>>))
    /\ res.out = "silent"
    /\ NumEq(res.env[NameJ], 2)
    /\ NumEq(res.env[NameK], 2)
    /\ NameN \notin DOMAIN res.env

\* the call of executeCode just made failed in tokenize
LexingFailed == call.out = "error" /\ call.msg = "Unterminated string literal"

\* the next call of executeCode scans its text from position 0 and gets the tokens a
\* new Lexer gets
NextCallLexedInFull ==
    call' # call =>
        /\ call'.lexerBefore.pos = 0
        /\ SameTokens(tokenize(call'.code, call'.lexerBefore), tokenize(call'.code, NewLexer))

\* C23: after a call of tokenize that failed with "Unterminated string literal", the
\* next call on the same Lexer starts at position 0 and returns the tokens a new Lexer
\* returns: the line typed after a bad string literal is lexed in full
C23_RestartAfterFailure == [][LexingFailed => NextCallLexedInFull]_vars

RECURSIVE WellFormed(_)
\* the tree holds no null pointer: the node and everything below it is a node
WellFormed(node) ==
    CASE node.k = "null" -> FALSE
      [] node.k = "binop" -> WellFormed(node.left) /\ WellFormed(node.right)
      [] node.k = "assign" -> WellFormed(node.valueExpr)
      [] node.k = "compare" ->
            /\ WellFormed(node.left)
            /\ \A i \in DOMAIN node.compRights : WellFormed(node.compRights[i])
      [] node.k = "if" ->
            /\ WellFormed(node.condition)
            /\ \A i \in DOMAIN node.body : WellFormed(node.body[i])
            /\ \A j \in DOMAIN node.elifs :
                   /\ WellFormed(node.elifs[j][1])
                   /\ \A i \in DOMAIN node.elifs[j][2] : WellFormed(node.elifs[j][2][i])
            /\ \A i \in DOMAIN node.elseBody : WellFormed(node.elseBody[i])
      [] node.k = "while" ->
            /\ WellFormed(node.condition)
            /\ \A i \in DOMAIN node.body : WellFormed(node.body[i])
            /\ \A i \in DOMAIN node.elseBody : WellFormed(node.elseBody[i])
      [] OTHER -> TRUE

\* executeCode got as far as ast->eval(env): tokenize and parse returned
EvalReached == res.out # "none" /\ ~(res.ast = NullNode /\ res.out \in {"error", "hang"})

\* C24: whenever executeCode reaches eval, the root of the tree and every operand,
\* condition, assigned expression and body statement in it is a node, also for a line
\* of blanks, a comment line and an expression that ends in an operator
C24_TreeHasNoNull == EvalReached => res.out # "ub" /\ WellFormed(res.ast)

\* C25: parse ends on every token sequence, with a tree or with a parse error: the
\* statement loop of parseBlock takes at least one token in each turn, also at an
\* operator that starts no expression
C25_ParseTerminates ==
    (res.out # "none" /\ inp.tokens \in BlockInputs) => res.out # "hang"

\* parse raised an error: nothing was evaluated
ParseRejected == res.out = "error" /\ res.ast = NullNode /\ res.log = <<>> /\ res.env = NewEnvironment

\* C26: a token sequence with tokens left over after a complete statement, such as 1 2
\* or x 1 = 5, is rejected with a parse error; it is not evaluated with its tail ignored
C26_LeftoverTokensRejected ==
    (res.out # "none" /\ inp.tokens \in LeftoverInputs) => ParseRejected

\* C27: a statement whose evaluation fails with an error leaves the Environment as it
\* was before the statement: no binding made by an assignment within an operand, or
\* by earlier statements or iterations of a failing if or while body, remains
C27_FailureLeavesEnvironment ==
    res.out = "error" => res.env = env

RECURSIVE JoinedLines(_)
\* the lines in input order with a newline between each two
JoinedLines(lines) ==
    IF lines = <<>> THEN <<>>
    ELSE IF Len(lines) = 1 THEN lines[1]
    ELSE JoinedLines(SubSeq(lines, 1, Len(lines) - 1)) \o <<"\n">> \o lines[Len(lines)]

\* this turn of the loop called executeCode
Called == call' # call

\* what one turn of the loop of Interpreter::run does with the buffer
BufferingStep ==
    /\ ~isInBlock => buffer = <<>>
    /\ ~isInBlock' => buffer' = <<>>
    /\ Called =>
           /\ ~isInBlock'
           /\ call'.code # <<>>
           /\ isInBlock => buffer # <<>> /\ call'.code = JoinedLines(buffer)
           /\ ~isInBlock =>
                  /\ call'.code \in Lines
                  /\ ~isExitCommand(call'.code)
                  /\ call'.code[Len(call'.code)] # ":"
    /\ (isInBlock /\ isInBlock') =>
           /\ ~Called
           /\ running' # "exit"
           /\ \/ buffer' = buffer
              \/ /\ Len(buffer') = Len(buffer) + 1
                 /\ SubSeq(buffer', 1, Len(buffer)) = buffer
                 /\ buffer'[Len(buffer')] # <<>>
    /\ (~isInBlock /\ isInBlock') =>
           /\ ~Called
           /\ Len(buffer') = 1
           /\ buffer'[1][Len(buffer'[1])] = ":"
    /\ (running = "run" /\ running' = "exit") => ~isInBlock /\ ~Called /\ buffer' = <<>>

\* C28: the buffer is empty whenever the main prompt is shown; a line ending in ":"
\* typed at the main prompt opens a block, every non-empty line after it is appended
\* without a call of executeCode, and the first empty line closes the block and
\* executes the buffered lines once, joined by newlines in input order; exit commands
\* are recognised only outside a block; executeCode never gets an empty text, and the
\* buffer is cleared after each call, so that no line is passed to it twice
C28_BlockBuffering == [][BufferingStep]_vars

\* the block while i < 3: / i = i + 1 was closed by an empty line and executed as two
\* lines joined by a newline
C28_Witness ==
    /\ call.code = LineWhile \o <<"\n">> \o LineBody
    /\ ~isInBlock
    /\ buffer = <<>>

\* the integer a numeric value is truncated to
IntPart(val) == IF val.t = "int" THEN val.v ELSE Trunc(val)

\* the trees l % r on two numeric operands
ModuloInputs == {node \in NumericInputs : node.op = OpMod}

\* C29: l % r on two numeric operands either fails with "Division by zero" or yields
\* its integer remainder by a non-zero integer divisor; a non-zero right operand that
\* truncates to 0, as 0.5, never reaches an integer modulo by zero
C29_ModuloDivisorNonZero ==
    (res.out # "none" /\ inp.ast \in ModuloInputs) =>
        \/ res.out = "error" /\ res.msg = "Division by zero"
        \/ /\ res.out = "printed"
           /\ IntPart(RightValue(inp.ast)) # 0
           /\ res.v = IntV(CRem(IntPart(LeftValue(inp.ast)), IntPart(RightValue(inp.ast))))

RECURSIVE DecimalOf(_)
\* the decimal digits of a natural number
DecimalOf(n) ==
    IF n < 10 THEN <<DigitSeq[n + 1]>>
    ELSE Append(DecimalOf(n \div 10), DigitSeq[(n % 10) + 1])

RECURSIVE Canonical(_)
\* a digit run without its leading zeros
Canonical(s) == IF Len(s) > 1 /\ s[1] = "0" THEN Canonical(Tail(s)) ELSE s

\* the digit runs among the statements
IntLiterals == {s \in NumberLexemes : count(s, ".") = 0} \cup WideLiterals

\* C30: an int literal, a digit run without '.', is evaluated to the int its digits
\* denote, so that the digits of the value are those of the literal; a literal above the
\* 32-bit range, as 9999999999, is not turned into another value such as 0
C30_IntLiteralDenotesItsDigits ==
    (res.out # "none" /\ inp.code \in IntLiterals) =>
        /\ res.out = "printed"
        /\ res.v.t = "int"
        /\ res.v.v >= 0
        /\ DecimalOf(res.v.v) = Canonical(inp.code)

====
